---- MODULE Spec2Model ----
(***************************************************************************)
(* WaddlePerf probe engine: the bounded concurrent scheduler of the        *)
(* archived HTTP trace and DNS resolver tools, the sequential ping series  *)
(* of the archived UDP ping and of the containerClient ICMP / UDP tests,   *)
(* the containerClient's per-family target loops, its TCP / HTTP tests and *)
(* statistics blocks, and the shared library's HTTP client (retries and    *)
(* circuit breaker) and gRPC rate limiter.                                 *)
(*                                                                         *)
(* One behaviour is one run of one tool: Init picks the tool (mode) and    *)
(* its inputs, and only that tool's actions are enabled afterwards.        *)
(***************************************************************************)
EXTENDS Integers, Sequences, FiniteSets, TLC

\* ---------------------------------------------------------------- bounds
MaxTries == 3          \* attempts of a scheduled run (tries / count)
MaxConcurrent == 3     \* the concurrency setting given by the caller
MaxPings == 3          \* attempts of a sequential ping series
MaxStray == 1          \* non-matching packets one attempt may see
MaxRtt == 2            \* round-trip times are 1 .. MaxRtt
MaxDup == 1            \* extra "time=" lines the ping utility may print
MaxTargets == 3         \* configured targets, all families together
MaxSamples == 10       \* successful samples a statistics block is given
MaxCalls == 3          \* run_test calls on one HttpTest instance
TimeoutTicks == 2      \* self.timeout of a probe, in clock ticks
FailureThreshold == 2  \* circuit_breaker.failure_threshold
SuccessThreshold == 2  \* circuit_breaker.success_threshold
MaxRetries == 2        \* retry.max_retries
OpenTimeout == 2       \* circuit_breaker.timeout, in clock ticks
MaxDelay == 2          \* longest backoff delay, in clock ticks
MaxTime == 4           \* clock ticks a run of the HTTP client lasts
RequestsPerMinute == 2 \* requests_per_minute of the rate limiter
WindowTicks == 2       \* the limiter's 60.0 seconds, in clock ticks
MaxTicks == 2          \* clock ticks a run of the rate limiter lasts

None == "None"
Pending == [pending |-> TRUE]   \* a task that has not finished yet
Raised == [raised |-> TRUE]     \* an exception leaving a coroutine
IsRaised(r) == "raised" \in DOMAIN r
Nothing == [none |-> TRUE]      \* a record-valued variable not assigned yet
IsNone(o) == "none" \in DOMAIN o

\* ------------------------------------------------------------- variables
VARIABLES
    mode,              \* which tool this run is
    waits,             \* instrumentation: the sequence numbers after which
                       \* a series slept its inter-attempt interval
    \* --- scheduler (httptrace_async.py / resolverTime_async.py)
    tries,             \* self.tries / self.count
    concurrent,        \* self.concurrent_requests / self.concurrent_queries
    session,           \* AsyncHttpTrace.session is set
    sched_pc,          \* position of run_async
    tasks,             \* state of each semaphore_wrapper task
    sem_value,         \* asyncio.Semaphore._value
    sem_waiters,       \* asyncio.Semaphore._waiters (FIFO)
    completed,         \* as_completed's queue of finished tasks
    task_result,       \* what each finished task returned
    test_results,      \* the list run_concurrent_* builds and returns
    summary,           \* results['summary'] / stats
    completion_order,  \* instrumentation: task ids in the order they finished
    max_in_flight,     \* instrumentation: largest number of slots held at once
    \* --- archived UDP ping (udpping_async.py)
    ping_count,        \* self.ping_count
    running,           \* self._running
    ping_pc,           \* position of run_async / run_async_pings / the attempt
    ping_seq,          \* the loop variable seq
    sock_bound,        \* the coroutine's local "sock" is bound
    ping_stray,        \* datagrams from other addresses seen by this attempt
    ping_results,      \* results of run_async_pings
    ping_stats,        \* what calculate_statistics returned
    socks_opened,      \* instrumentation: attempts whose socket() call succeeded
    socks_closed,      \* instrumentation: attempts whose socket was close()d
    ping_started,      \* instrumentation: attempts begun
    started_after_cancel, \* instrumentation: attempts begun with _running False
    \* --- containerClient probes (icmp_test.py / udp_test.py)
    packet_count,      \* self.packet_count
    probe_pc,          \* position of _run_ping_test / _test_raw_udp / _test_dns
    probe_seq,         \* the loop variable seq / i
    probe_stray,       \* non-matching packets seen by the current attempt
    probe_clock,       \* instrumentation: ticks since the send / since the
                       \* current wait_for began
    rtts,              \* the list rtts
    probe_sock,        \* the probe's socket: "none", "open" or "closed";
                       \* "denied" when the raw socket was refused
    result,            \* the IcmpTestResult / UdpTestResult being filled in
    attempt_log,       \* instrumentation: <<seq, outcome, event, packet>> of
                       \* each attempt made
    \* --- containerClient (client.py)
    targets,           \* number of configured targets of each family
    fam_pc,            \* position of each run_<family>_tests coroutine
    fam_idx,           \* index of the target each family loop is at
    fam_results,       \* the list "results" of each family
    all_results,       \* what run_all_tests returned
    raised_targets,    \* instrumentation: targets whose test raised
    uploads,           \* instrumentation: the records handed to _upload_result
    \* --- containerClient connection probes (tcp_test.py / http_test.py)
    conn_pc,           \* position of _test_raw_tcp / _test_tcp_tls / _test_ssh /
                       \* HttpTest.run_test
    conn_result,       \* the TcpTestResult / HttpTestResult being filled in
    conn_wait,         \* instrumentation: ticks since reader.readline() began
    conn_events,       \* instrumentation: what each awaited step ended with
    \* --- the echo request of icmp_test.py (_ping_once, _calculate_checksum)
    icmp_id,           \* the local icmp_id
    icmp_seq,          \* the local icmp_seq: <<>> before the call, then <<seq>>
    data,              \* the local data: the packed timestamp
    packet,            \* the local packet handed to sock.sendto; <<>> before
    \* --- the statistics blocks of httptrace_async.py / resolverTime_async.py
    times,             \* the local list times
    stats_pc,          \* "collect" while results come in, then "done"
    stats,             \* results['summary'] / stats['query_times']
    \* --- one HttpTest instance over several run_test calls (http_test.py)
    http_session,      \* self.session: 0 when None, else the number of the
                       \* call whose trace_config it was created with
    http_pc,           \* "between" calls or in the "request" of a call
    timing_data,       \* the dict timing_data of each call so far: which
                       \* request wrote each of its timestamps
    http_results,      \* instrumentation: what each call returned
    \* --- shared HTTP client with circuit breaker (py_libs/http/client.py)
    cb_enabled,        \* config.circuit_breaker.enabled
    circuit_state,     \* self._circuit_state
    cb_time,           \* time.time()
    request_pc,        \* position of _request_with_retry
    attempt,           \* the loop variable attempt
    last_request,      \* instrumentation: how the latest call step ended,
                       \* and the circuit a sent request found
    \* --- gRPC rate limiter (py_libs/grpc/interceptors.py)
    limits,            \* self.limits: client_id -> RateLimitEntry
    rl_time,           \* time.time()
    handlers,          \* each server thread inside intercept_service
    admitted           \* instrumentation: per client, the current_time of
                       \* each request passed on to continuation, ascending

schedVars == <<tries, concurrent, session, sched_pc, tasks, sem_value,
               sem_waiters, completed, task_result, test_results, summary,
               completion_order, max_in_flight>>

pingVars == <<ping_count, running, ping_pc, ping_seq, sock_bound, ping_stray,
              ping_results, ping_stats, socks_opened, socks_closed,
              ping_started, started_after_cancel>>

probeVars == <<packet_count, probe_pc, probe_seq, probe_stray, probe_clock, rtts,
               probe_sock, result, attempt_log>>

clientVars == <<targets, fam_pc, fam_idx, fam_results, all_results,
                raised_targets, uploads>>

connVars == <<conn_pc, conn_result, conn_wait, conn_events>>

pktVars == <<icmp_id, icmp_seq, data, packet>>

statVars == <<times, stats_pc, stats>>

instVars == <<http_session, http_pc, timing_data, http_results>>

cbVars == <<cb_enabled, circuit_state, cb_time, request_pc, attempt,
            last_request>>

rlVars == <<limits, rl_time, handlers, admitted>>

vars == <<mode, waits, schedVars, pingVars, probeVars, clientVars, connVars, pktVars,
          statVars, instVars, cbVars, rlVars>>

\* =====================================================================
\* Concurrency scheduler
\* =====================================================================
SchedModes == {"http_trace", "dns_resolver"}

TaskIds == 0 .. (tries - 1)

Min(a, b) == IF a < b THEN a ELSE b

\* AsyncHttpTrace.__init__ caps the setting by tries; AsyncResolverTime takes
\* the setting as given.
HttpConcurrent(c, n) == Min(c, n)

\* The outcomes one protocol operation can end with.
HttpEvents == {"response", "TimeoutError", "Exception"}
DnsEvents == {"answer", "NXDOMAIN", "NoAnswer", "Timeout", "Exception"}

TimeoutTotal == 30     \* AsyncHttpTrace timeout default, seconds
DnsTimeoutMs == 5000   \* AsyncResolverTime.timeout * 1000

\* Faulty variant: the outcome does not take over the request id it was
\* given.
MeasureHttpTraceSingleUntagged(request_id, ev) ==
    CASE ev = "response" -> [request_id |-> 0, error |-> None, time_total |-> 1]
      [] ev = "TimeoutError" ->
            [request_id |-> 0, error |-> "timeout", time_total |-> TimeoutTotal]
      [] ev = "Exception" ->
            [request_id |-> 0, error |-> "exception", time_total |-> 0]

\* measure_http_trace_single: the request runs inside try/except; every
\* exception class the request can raise is turned into an error dict.
MeasureHttpTraceSingle(request_id, ev) ==
    CASE ev = "response" ->
            [request_id |-> request_id, error |-> None, time_total |-> 1]
      [] ev = "TimeoutError" ->
            [request_id |-> request_id, error |-> "timeout",
             time_total |-> TimeoutTotal]
      [] ev = "Exception" ->
            [request_id |-> request_id, error |-> "exception", time_total |-> 0]

\* query_dns_async: DNSQueryResult has no field for query_id; the parameter
\* is accepted and not stored.
QueryDnsAsync(query_id, ev) ==
    CASE ev = "answer" ->
            [success |-> TRUE, error |-> None, query_time_ms |-> 1]
      [] ev = "NXDOMAIN" ->
            [success |-> FALSE, error |-> "NXDOMAIN - Domain does not exist",
             query_time_ms |-> 1]
      [] ev = "NoAnswer" ->
            [success |-> FALSE, error |-> "No record found", query_time_ms |-> 1]
      [] ev = "Timeout" ->
            [success |-> FALSE, error |-> "DNS query timeout",
             query_time_ms |-> DnsTimeoutMs]
      [] ev = "Exception" ->
            [success |-> FALSE, error |-> "exception", query_time_ms |-> 1]

EventsOf(m) == IF m = "http_trace" THEN HttpEvents ELSE DnsEvents

Measure(m, i, ev) ==
    IF m = "http_trace" THEN MeasureHttpTraceSingle(i, ev) ELSE QueryDnsAsync(i, ev)

\* Tasks that hold a slot: acquired (or handed the slot on wake-up) and not
\* yet released.
InFlight == {i \in TaskIds : tasks[i] \in {"running", "woken"}}

\* Semaphore.locked(): no free slot, or somebody is already queued.
SemLocked == sem_value = 0 \/ sem_waiters # <<>>

SchedIdle ==
    /\ tries = 0 /\ concurrent = 0 /\ session = FALSE /\ sched_pc = "idle"
    /\ tasks = <<>> /\ sem_value = 0 /\ sem_waiters = <<>> /\ completed = <<>>
    /\ task_result = <<>> /\ test_results = <<>> /\ summary = Nothing
    /\ completion_order = <<>> /\ max_in_flight = 0

SchedInit ==
    /\ mode \in SchedModes
    /\ tries \in 0 .. MaxTries
    /\ \E c \in 0 .. MaxConcurrent :
          concurrent = IF mode = "http_trace" THEN HttpConcurrent(c, tries) ELSE c
    /\ session = FALSE
    /\ sched_pc = IF mode = "http_trace" THEN "create_session" ELSE "spawn"
    /\ tasks = [i \in TaskIds |-> "created"]
    /\ sem_value = 0
    /\ sem_waiters = <<>>
    /\ completed = <<>>
    /\ task_result = [i \in TaskIds |-> Pending]
    /\ test_results = <<>>
    /\ summary = Nothing
    /\ completion_order = <<>>
    /\ max_in_flight = 0

\* run_async (httptrace): await self.create_session()
CreateSession ==
    /\ mode = "http_trace" /\ sched_pc = "create_session"
    /\ session' = TRUE
    /\ sched_pc' = "spawn"
    /\ UNCHANGED <<mode, cbVars, rlVars, waits, instVars, connVars, pktVars, statVars, tries, concurrent, tasks, sem_value, sem_waiters,
                   completed, task_result, test_results, summary,
                   completion_order, max_in_flight, pingVars, probeVars, clientVars>>

\* create_session raises (connector / TLS context): run_async has not
\* entered its try block yet, the exception leaves run_async.
CreateSessionRaises ==
    /\ mode = "http_trace" /\ sched_pc = "create_session"
    /\ sched_pc' = "raised"
    /\ UNCHANGED <<mode, cbVars, rlVars, waits, instVars, connVars, pktVars, statVars, tries, concurrent, session, tasks, sem_value,
                   sem_waiters, completed, task_result, test_results, summary,
                   completion_order, max_in_flight, pingVars, probeVars, clientVars>>

\* run_concurrent_*: semaphore = asyncio.Semaphore(n); tasks = [create_task ...]
SpawnTasks ==
    /\ mode \in SchedModes /\ sched_pc = "spawn"
    /\ sem_value' = concurrent
    /\ sched_pc' = "collect"
    /\ UNCHANGED <<mode, cbVars, rlVars, waits, instVars, connVars, pktVars, statVars, tries, concurrent, session, tasks, sem_waiters,
                   completed, task_result, test_results, summary,
                   completion_order, max_in_flight, pingVars, probeVars, clientVars>>

\* Faulty variant: acquire() never waits.
AcquiresNowUnguarded == TRUE

\* Whether acquire() returns at once.
AcquiresNow == ~SemLocked

\* First step of task i (the loop runs new tasks in creation order):
\* "async with semaphore" takes a slot or queues the task.
StartTask(i) ==
    /\ mode \in SchedModes /\ sched_pc = "collect"
    /\ tasks[i] = "created"
    /\ \A j \in TaskIds : j < i => tasks[j] # "created"
    /\ IF AcquiresNow
         THEN /\ sem_value' = sem_value - 1
              /\ tasks' = [tasks EXCEPT ![i] = "running"]
              /\ sem_waiters' = sem_waiters
         ELSE /\ sem_waiters' = Append(sem_waiters, i)
              /\ tasks' = [tasks EXCEPT ![i] = "waiting"]
              /\ sem_value' = sem_value
    /\ max_in_flight' =
          LET n == Cardinality({j \in TaskIds : tasks'[j] \in {"running", "woken"}})
          IN  IF n > max_in_flight THEN n ELSE max_in_flight
    /\ UNCHANGED <<mode, cbVars, rlVars, waits, instVars, connVars, pktVars, statVars, tries, concurrent, session, sched_pc, completed,
                   task_result, test_results, summary, completion_order,
                   pingVars, probeVars, clientVars>>

\* A woken waiter resumes inside the "async with" body.
ResumeTask(i) ==
    /\ mode \in SchedModes /\ sched_pc = "collect"
    /\ tasks[i] = "woken"
    /\ tasks' = [tasks EXCEPT ![i] = "running"]
    /\ UNCHANGED <<mode, cbVars, rlVars, waits, instVars, connVars, pktVars, statVars, tries, concurrent, session, sched_pc, sem_value,
                   sem_waiters, completed, task_result, test_results, summary,
                   completion_order, max_in_flight, pingVars, probeVars, clientVars>>

\* Semaphore.release() as the "async with" block is left: the slot goes to
\* the first waiter if there is one, else back to the counter.
ReleaseWakes == sem_waiters # <<>>

\* Task i's protocol operation ends with event ev; the wrapper leaves the
\* "async with" block (release) and the task finishes with the outcome.
FinishTask(i, ev) ==
    /\ mode \in SchedModes /\ sched_pc = "collect"
    /\ tasks[i] = "running"
    /\ task_result' = [task_result EXCEPT ![i] = Measure(mode, i, ev)]
    /\ IF ReleaseWakes
         THEN /\ tasks' = [tasks EXCEPT ![i] = "done",
                                        ![Head(sem_waiters)] = "woken"]
              /\ sem_waiters' = Tail(sem_waiters)
              /\ sem_value' = sem_value
         ELSE /\ tasks' = [tasks EXCEPT ![i] = "done"]
              /\ sem_waiters' = sem_waiters
              /\ sem_value' = sem_value + 1
    /\ completed' = Append(completed, i)
    /\ completion_order' = Append(completion_order, i)
    /\ UNCHANGED <<mode, cbVars, rlVars, waits, instVars, connVars, pktVars, statVars, tries, concurrent, session, sched_pc, test_results,
                   summary, max_in_flight, pingVars, probeVars, clientVars>>

\* Which finished task the collecting loop takes next: as_completed yields
\* them in the order they finished.
NextCompleted == Head(completed)

\* for task in asyncio.as_completed(tasks): result = await task; append
CollectResult ==
    /\ mode \in SchedModes /\ sched_pc = "collect"
    /\ completed # <<>>
    /\ LET t == NextCompleted IN
         /\ completed' = SelectSeq(completed, LAMBDA x : x # t)
         /\ IF IsRaised(task_result[t])
              THEN /\ sched_pc' = "raised"
                   /\ test_results' = test_results
              ELSE /\ test_results' = Append(test_results, task_result[t])
                   /\ sched_pc' = sched_pc
    /\ UNCHANGED <<mode, cbVars, rlVars, waits, instVars, connVars, pktVars, statVars, tries, concurrent, session, tasks, sem_value,
                   sem_waiters, task_result, summary, completion_order,
                   max_in_flight, pingVars, probeVars, clientVars>>

\* Faulty variant: the loop is left after the first result.
AllCollectedEarly == Len(test_results) >= Min(1, tries)

\* The as_completed loop has yielded once per task.
AllCollected == Len(test_results) = tries

\* return results
ReturnResults ==
    /\ mode \in SchedModes /\ sched_pc = "collect"
    /\ AllCollected
    /\ sched_pc' = "stats"
    /\ UNCHANGED <<mode, cbVars, rlVars, waits, instVars, connVars, pktVars, statVars, tries, concurrent, session, tasks, sem_value,
                   sem_waiters, completed, task_result, test_results, summary,
                   completion_order, max_in_flight, pingVars, probeVars, clientVars>>

\* httptrace run_async: successful = no 'error' and time_total > 0
HttpSuccessful(rs) == SelectSeq(rs, LAMBDA r : r.error = None /\ r.time_total > 0)
HttpErrors(rs) == SelectSeq(rs, LAMBDA r : r.error # None)

\* resolverTime calculate_statistics
DnsSuccessful(rs) == SelectSeq(rs, LAMBDA r : r.success)
DnsFailed(rs) == SelectSeq(rs, LAMBDA r : ~r.success)

Summarize(m, rs) ==
    IF m = "http_trace"
      THEN [total |-> Len(rs),
            successful |-> Len(HttpSuccessful(rs)),
            failed |-> Len(HttpErrors(rs))]
      ELSE [total |-> Len(rs),
            successful |-> Len(DnsSuccessful(rs)),
            failed |-> Len(DnsFailed(rs))]

\* run_async after the scheduler returned: build the summary / statistics
\* (and, for HTTP, close the session in the finally block).
ComputeSummary ==
    /\ mode \in SchedModes /\ sched_pc = "stats"
    /\ summary' = Summarize(mode, test_results)
    /\ session' = FALSE
    /\ sched_pc' = "done"
    /\ UNCHANGED <<mode, cbVars, rlVars, waits, instVars, connVars, pktVars, statVars, tries, concurrent, tasks, sem_value, sem_waiters,
                   completed, task_result, test_results, completion_order,
                   max_in_flight, pingVars, probeVars, clientVars>>

SchedNext ==
    \/ CreateSession
    \/ CreateSessionRaises
    \/ SpawnTasks
    \/ \E i \in TaskIds : StartTask(i)
    \/ \E i \in TaskIds : ResumeTask(i)
    \/ \E i \in TaskIds : \E ev \in EventsOf(mode) : FinishTask(i, ev)
    \/ CollectResult
    \/ ReturnResults
    \/ ComputeSummary


\* =====================================================================
\* Archived UDP ping: a sequential series with an interrupt flag
\* =====================================================================
\* An exact fraction num/den (the code computes floats).
Frac(n, d) == [num |-> n, den |-> d]
FracEq(a, b) == a.num * b.den = b.num * a.den

PingIdle ==
    /\ ping_count = 0 /\ running = TRUE /\ ping_pc = "idle" /\ ping_seq = 0
    /\ sock_bound = FALSE /\ ping_stray = 0 /\ ping_results = <<>>
    /\ ping_stats = Nothing /\ socks_opened = {} /\ socks_closed = {}
    /\ ping_started = 0 /\ started_after_cancel = 0

PingInit ==
    /\ mode = "udp_ping"
    /\ ping_count \in 0 .. MaxPings
    /\ running = TRUE
    /\ ping_pc = "install"
    /\ ping_seq = 0
    /\ sock_bound = FALSE
    /\ ping_stray = 0
    /\ ping_results = <<>>
    /\ ping_stats = Nothing
    /\ socks_opened = {}
    /\ socks_closed = {}
    /\ ping_started = 0
    /\ started_after_cancel = 0

\* UDPPingResult(seq, rtt_ms, success, error); the Optional rtt_ms is <<>>
\* for None and <<rtt>> for a value.
PingSuccess(seq, rtt) ==
    [seq |-> seq, rtt_ms |-> <<rtt>>, success |-> TRUE, error |-> None]
PingFailure(seq, err) ==
    [seq |-> seq, rtt_ms |-> <<>>, success |-> FALSE, error |-> err]

\* Faulty variant: the outer handler lets the exception go on.
OuterExceptReraises(seq, exc) == Raised

\* The outer "except Exception" of send_udp_ping_async: an exception of
\* create_socket or sendto becomes a failed result.
OuterExcept(seq, exc) == PingFailure(seq, exc)

\* The inner handlers of the receive loop: socket.timeout breaks out of the
\* loop to the timeout result, any other exception becomes a failed result.
InnerExcept(seq, exc) ==
    IF exc = "socket.timeout" THEN PingFailure(seq, "timeout")
    ELSE PingFailure(seq, exc)

\* run_async: signal.signal(SIGINT, self.signal_handler)
InstallHandler ==
    /\ mode = "udp_ping" /\ ping_pc = "install"
    /\ ping_pc' = "check"
    /\ UNCHANGED <<mode, cbVars, rlVars, waits, instVars, connVars, pktVars, statVars, schedVars, probeVars, clientVars, ping_count, running, ping_seq, sock_bound,
                   ping_stray, ping_results, ping_stats, socks_opened,
                   socks_closed, ping_started,
                   started_after_cancel>>

\* signal_handler: the interrupt arrives while the run is under way.
SignalHandler ==
    /\ mode = "udp_ping"
    /\ ping_pc \notin {"install", "done", "raised", "idle"}
    /\ running = TRUE
    /\ running' = FALSE
    /\ UNCHANGED <<mode, cbVars, rlVars, waits, instVars, connVars, pktVars, statVars, schedVars, probeVars, clientVars, ping_count, ping_pc, ping_seq, sock_bound,
                   ping_stray, ping_results, ping_stats, socks_opened,
                   socks_closed, ping_started,
                   started_after_cancel>>

\* Faulty variant: the loop never looks at the flag.
StopRequestedIgnored == FALSE

\* The test at the top of the loop body: "if not self._running: break".
StopRequested == ~running

\* for seq in range(self.ping_count): if not self._running: break
\* else the attempt for seq begins (send_udp_ping_async is entered).
LoopCheck ==
    /\ mode = "udp_ping" /\ ping_pc = "check"
    /\ IF ping_seq >= ping_count \/ StopRequested
         THEN /\ ping_pc' = "stats"
              /\ UNCHANGED <<ping_started, started_after_cancel>>
         ELSE /\ ping_pc' = "create_socket"
              /\ ping_started' = ping_started + 1
              /\ started_after_cancel' =
                    IF running THEN started_after_cancel
                    ELSE started_after_cancel + 1
    /\ sock_bound' = FALSE
    /\ ping_stray' = 0
    /\ UNCHANGED <<mode, cbVars, rlVars, waits, instVars, connVars, pktVars, statVars, schedVars, probeVars, clientVars, ping_count, running, ping_seq,
                   ping_results, ping_stats, socks_opened, socks_closed>>

\* Faulty variant: the series sleeps after its last attempt as well.
NotLastAlways(seq, count) == TRUE

\* "if seq < self.ping_count - 1": the attempt is not the last of the series
NotLast(seq, count) == seq < count - 1

\* The finally block: "if 'sock' in locals(): sock.close()".
ClosedByFinally(bound, closed, seq) == IF bound THEN closed \cup {seq} ELSE closed

\* After the attempt: results.append(result); sleep unless this was the last
\* ping or the flag is down.
AfterAttempt(res) ==
    /\ IF IsRaised(res)
         THEN /\ ping_pc' = "raised"
              /\ ping_results' = ping_results
              /\ ping_seq' = ping_seq
         ELSE /\ ping_results' = Append(ping_results, res)
              /\ IF NotLast(ping_seq, ping_count) /\ running
                   THEN ping_pc' = "sleep" /\ ping_seq' = ping_seq
                   ELSE ping_pc' = "check" /\ ping_seq' = ping_seq + 1
    /\ socks_closed' = ClosedByFinally(sock_bound, socks_closed, ping_seq)

CreateSocketEvents == {"ok", "socket_error", "setsockopt_error"}

\* create_socket in the executor: socket(), setsockopt(IP_TTL), settimeout().
\* A failure of socket() leaves no socket; a failure after it leaves the
\* socket in create_socket's own local, never bound in the coroutine.
CreateSocket(ev) ==
    /\ mode = "udp_ping" /\ ping_pc = "create_socket"
    /\ CASE ev = "ok" ->
              /\ socks_opened' = socks_opened \cup {ping_seq}
              /\ sock_bound' = TRUE
              /\ ping_pc' = "send"
              /\ UNCHANGED <<ping_results, ping_seq, socks_closed>>
         [] ev = "socket_error" ->
              /\ socks_opened' = socks_opened
              /\ sock_bound' = FALSE
              /\ AfterAttempt(OuterExcept(ping_seq, ev))
         [] ev = "setsockopt_error" ->
              /\ socks_opened' = socks_opened \cup {ping_seq}
              /\ sock_bound' = FALSE
              /\ AfterAttempt(OuterExcept(ping_seq, ev))
    /\ UNCHANGED <<mode, cbVars, rlVars, waits, instVars, connVars, pktVars, statVars, schedVars, probeVars, clientVars, ping_count, running, ping_stray,
                   ping_stats, ping_started,
                   started_after_cancel>>

SendEvents == {"sent", "send_error"}

\* sock.sendto(payload, (dst_host, port)) in the executor
SendTo(ev) ==
    /\ mode = "udp_ping" /\ ping_pc = "send"
    /\ IF ev = "sent"
         THEN /\ ping_pc' = "recv"
              /\ UNCHANGED <<ping_results, ping_seq, socks_closed>>
         ELSE AfterAttempt(OuterExcept(ping_seq, ev))
    /\ UNCHANGED <<mode, cbVars, rlVars, waits, instVars, connVars, pktVars, statVars, schedVars, probeVars, clientVars, ping_count, running, sock_bound,
                   ping_stray, ping_stats, socks_opened, ping_started,
                   started_after_cancel>>

RecvEvents == {"reply", "other_addr", "socket.timeout", "recv_error", "deadline"}

\* One turn of "while time.perf_counter() < deadline": recvfrom returns a
\* datagram of the target or of somebody else, or raises, or the deadline
\* has passed.
RecvFrom(ev) ==
    /\ mode = "udp_ping" /\ ping_pc = "recv"
    /\ CASE ev = "reply" ->
              /\ AfterAttempt(PingSuccess(ping_seq, 1))
              /\ ping_stray' = ping_stray
         [] ev = "other_addr" ->
              /\ ping_stray < MaxStray
              /\ ping_stray' = ping_stray + 1
              /\ UNCHANGED <<ping_pc, ping_results, ping_seq, socks_closed>>
         [] ev = "deadline" ->
              /\ AfterAttempt(PingFailure(ping_seq, "timeout"))
              /\ ping_stray' = ping_stray
         [] ev \in {"socket.timeout", "recv_error"} ->
              /\ AfterAttempt(InnerExcept(ping_seq, ev))
              /\ ping_stray' = ping_stray
    /\ UNCHANGED <<mode, cbVars, rlVars, waits, instVars, connVars, pktVars, statVars, schedVars, probeVars, clientVars, ping_count, running, sock_bound,
                   ping_stats, socks_opened, ping_started,
                   started_after_cancel>>

\* await asyncio.sleep(interval) has elapsed: next loop turn
IntervalElapsed ==
    /\ mode = "udp_ping" /\ ping_pc = "sleep"
    /\ ping_seq' = ping_seq + 1
    /\ ping_pc' = "check"
    /\ waits' = Append(waits, ping_seq)
    /\ UNCHANGED <<mode, cbVars, rlVars, instVars, connVars, pktVars, statVars, schedVars, probeVars, clientVars, ping_count, running, sock_bound,
                   ping_stray, ping_results, ping_stats, socks_opened,
                   socks_closed, ping_started,
                   started_after_cancel>>

PingSuccessful(rs) == SelectSeq(rs, LAMBDA r : r.success /\ r.rtt_ms # <<>>)
PingFailed(rs) == SelectSeq(rs, LAMBDA r : ~r.success)

\* calculate_statistics
CalculateStatistics(rs) ==
    [packets_transmitted |-> Len(rs),
     packets_received |-> Len(PingSuccessful(rs)),
     packets_lost |-> Len(PingFailed(rs)),
     packet_loss_percent |->
        IF Len(rs) > 0 THEN Frac(Len(PingFailed(rs)) * 100, Len(rs))
        ELSE Frac(0, 1),
     all_rtts |-> [k \in 1 .. Len(PingSuccessful(rs)) |->
                     PingSuccessful(rs)[k].rtt_ms[1]],
     from_seqs |-> [k \in 1 .. Len(rs) |-> rs[k].seq]]

\* run_async: stats = self.calculate_statistics(self.results)
PingStatistics ==
    /\ mode = "udp_ping" /\ ping_pc = "stats"
    /\ ping_stats' = CalculateStatistics(ping_results)
    /\ ping_pc' = "done"
    /\ UNCHANGED <<mode, cbVars, rlVars, waits, instVars, connVars, pktVars, statVars, schedVars, probeVars, clientVars, ping_count, running, ping_seq, sock_bound,
                   ping_stray, ping_results, socks_opened, socks_closed,
                   ping_started,
                   started_after_cancel>>

PingNext ==
    \/ InstallHandler
    \/ SignalHandler
    \/ LoopCheck
    \/ \E ev \in CreateSocketEvents : CreateSocket(ev)
    \/ \E ev \in SendEvents : SendTo(ev)
    \/ \E ev \in RecvEvents : RecvFrom(ev)
    \/ IntervalElapsed
    \/ PingStatistics

\* =====================================================================
\* containerClient probes: ICMP series (with the system-ping fallback),
\* raw UDP series, DNS variant
\* =====================================================================
ProbeModes == {"icmp", "raw_udp", "dns_probe"}

RECURSIVE SumSeq(_)
SumSeq(q) == IF q = <<>> THEN 0 ELSE Head(q) + SumSeq(Tail(q))

Abs(x) == IF x < 0 THEN 0 - x ELSE x

\* Faulty variant: every sample is compared with the first one.
DiffsFromFirst(q) == [k \in 1 .. (Len(q) - 1) |-> Abs(q[k + 1] - q[1])]

\* diffs = [abs(rtts[i] - rtts[i-1]) for i in range(1, len(rtts))]
Diffs(q) == [k \in 1 .. (Len(q) - 1) |-> Abs(q[k + 1] - q[k])]

\* IcmpTestResult() / UdpTestResult() as constructed: all defaults
NewResult ==
    [packets_sent |-> 0, packets_received |-> 0,
     packet_loss_percent |-> Frac(0, 1), latency_ms |-> Frac(0, 1),
     jitter_ms |-> Frac(0, 1), success |-> FALSE, error |-> None,
     raw_results |-> FALSE]

\* send_time = time.perf_counter(): the clock of an attempt, counted from
\* its send and from the start of the wait_for that is pending.
ClockStart == [elapsed |-> 0, wait |-> 0]

ProbeIdle ==
    /\ packet_count = 0 /\ probe_pc = "idle" /\ probe_seq = 0 /\ probe_stray = 0
    /\ probe_clock = ClockStart
    /\ rtts = <<>> /\ probe_sock = "none" /\ result = NewResult
    /\ attempt_log = <<>>

ProbeInit ==
    /\ mode \in ProbeModes
    /\ packet_count \in 0 .. MaxPings
    /\ probe_pc = IF mode = "dns_probe" THEN "dns_query" ELSE "socket"
    /\ probe_seq = 0
    /\ probe_stray = 0
    /\ probe_clock = ClockStart
    /\ rtts = <<>>
    /\ probe_sock = "none"
    /\ result = NewResult
    /\ attempt_log = <<>>

SocketEvents == {"ok", "PermissionError", "OSError", "setsockopt_error"}

\* What the handlers around the socket creation do with an exception:
\* icmp_test catches PermissionError and falls back to the ping utility;
\* every other exception (and every exception in udp_test) reaches the outer
\* "except Exception", which stores result.error.
\* Faulty variant: the failure is swallowed and the series of raw packets
\* is begun all the same.
SocketFailureTargetGoesOn(m, ev) == "loop"

SocketFailureTarget(m, ev) ==
    IF m = "icmp" /\ ev = "PermissionError" THEN "system_ping" ELSE "done"

\* socket.socket(...); setblocking; setsockopt; then rtts = [] and
\* result.packets_sent = self.packet_count
OpenSocket(ev) ==
    /\ mode \in {"icmp", "raw_udp"} /\ probe_pc = "socket"
    /\ CASE ev = "ok" ->
              /\ probe_sock' = "open"
              /\ result' = [result EXCEPT !.packets_sent = packet_count]
              /\ probe_pc' = "loop"
         [] ev = "setsockopt_error" ->
              /\ probe_sock' = "open"
              /\ result' = [result EXCEPT !.error = "error: setsockopt"]
              /\ probe_pc' = "done"
         [] ev \in {"PermissionError", "OSError"} ->
              /\ probe_sock' = IF mode = "icmp" /\ ev = "PermissionError"
                                THEN "denied" ELSE "none"
              /\ probe_pc' = SocketFailureTarget(mode, ev)
              /\ result' = IF SocketFailureTarget(mode, ev) = "done"
                             THEN [result EXCEPT !.error = "error: socket"]
                             ELSE result
    /\ UNCHANGED <<mode, cbVars, rlVars, waits, instVars, connVars, pktVars, statVars, schedVars, pingVars, clientVars, packet_count, probe_seq,
                   probe_stray, probe_clock, rtts, attempt_log>>

\* for seq in range(self.packet_count): the next attempt begins, or the
\* loop is over and the socket is closed.
SeriesLoop ==
    /\ mode \in {"icmp", "raw_udp"} /\ probe_pc = "loop"
    /\ IF probe_seq < packet_count
         THEN /\ probe_pc' = "send"
              /\ probe_sock' = probe_sock
         ELSE /\ probe_pc' = "stats"
              /\ probe_sock' = "closed"
    /\ probe_stray' = 0
    /\ probe_clock' = ClockStart
    /\ UNCHANGED <<mode, cbVars, rlVars, waits, instVars, connVars, pktVars, statVars, schedVars, pingVars, clientVars, packet_count, probe_seq, rtts,
                   result, attempt_log>>

\* What _ping_once / _send_udp_packet hand back: an Optional[float].
ReturnNone == Nothing
ReturnRtt(r) == [rtt |-> r]

\* The "except Exception" / "except asyncio.TimeoutError" handlers of
\* _ping_once and _send_udp_packet: the attempt's outcome is None.
AttemptExcept(exc) == ReturnNone

\* if rtt is not None: rtts.append(rtt); result.packets_received += 1
\* then the wait between attempts (except after the last). ev is what ended
\* the attempt, pkt the packet it ended on (<<>> if none).
RecordAttempt(rtt, ev, pkt) ==
    /\ attempt_log' = Append(attempt_log, <<probe_seq, rtt, ev, pkt>>)
    /\ IF IsRaised(rtt)
         THEN /\ probe_pc' = "done"
              /\ result' = [result EXCEPT !.error = "error: raised"]
              /\ UNCHANGED <<rtts, probe_seq>>
         ELSE /\ IF ~IsNone(rtt)
                   THEN /\ rtts' = Append(rtts, rtt.rtt)
                        /\ result' = [result EXCEPT !.packets_received = @ + 1]
                   ELSE UNCHANGED <<rtts, result>>
              /\ IF NotLast(probe_seq, packet_count)
                   THEN probe_pc' = "sleep" /\ probe_seq' = probe_seq
                   ELSE probe_pc' = "loop" /\ probe_seq' = probe_seq + 1

ProbeSendEvents == {"sent", "send_error"}

\* send_time = time.perf_counter(); loop.sock_sendto(sock, packet, addr)
ProbeSend(ev) ==
    /\ mode \in {"icmp", "raw_udp"} /\ probe_pc = "send"
    /\ IF ev = "sent"
         THEN /\ probe_pc' = "recv"
              /\ UNCHANGED <<rtts, result, probe_seq, attempt_log>>
         ELSE RecordAttempt(AttemptExcept(ev), ev, <<>>)
    /\ probe_clock' = ClockStart
    /\ UNCHANGED <<mode, cbVars, rlVars, waits, instVars, connVars, pktVars, statVars, schedVars, pingVars, clientVars, packet_count, probe_stray,
                   probe_sock>>

\* The instrumentation counts the non-matching packets of an attempt up
\* to MaxStray and the ticks since its send up to ElapsedCap; more packets
\* and more ticks leave the counts where they are.
ElapsedCap == TimeoutTicks * (MaxStray + 1)

\* Time passes while wait_for(sock_recvfrom, timeout) is pending; the wait
\* cannot outlast its timeout.
WaitTick ==
    /\ mode \in {"icmp", "raw_udp"} /\ probe_pc = "recv"
    /\ probe_clock.wait < TimeoutTicks
    /\ probe_clock' = [elapsed |-> Min(probe_clock.elapsed + 1, ElapsedCap),
                       wait |-> probe_clock.wait + 1]
    /\ UNCHANGED <<mode, cbVars, rlVars, waits, instVars, connVars, pktVars, statVars, schedVars, pingVars, clientVars, packet_count, probe_pc,
                   probe_seq, probe_stray, rtts, probe_sock, result, attempt_log>>

\* icmp_id = os.getpid() & 0xFFFF
IcmpId == 1

\* The ICMP packets a raw socket can be handed: echo replies (type 0) and
\* other types, with our identifier or another, with any sequence number.
IcmpTypes == {0, 3}
IcmpPackets ==
    [type : IcmpTypes, id : {IcmpId, IcmpId + 1}, seq : 0 .. MaxPings]

\* Faulty variant: the sequence number of the reply is not compared.
IsOurReplyAnySeq(pkt, seq) == pkt.type = 0 /\ pkt.id = IcmpId

\* if recv_type == 0 and recv_id == icmp_id and recv_seq == seq
IsOurReply(pkt, seq) == pkt.type = 0 /\ pkt.id = IcmpId /\ pkt.seq = seq

IcmpRecvEvents == {"packet", "malformed", "TimeoutError", "recv_error"}
UdpRecvEvents == {"from_target", "from_other", "TimeoutError", "recv_error"}

\* _ping_once: one turn of "while True": wait_for(sock_recvfrom, timeout)
\* and the parse of the reply. A reply that is not ours is skipped and a new
\* wait_for, with the full timeout, begins; a short packet makes
\* struct.unpack raise.
IcmpRecv(ev, pkt) ==
    /\ mode = "icmp" /\ probe_pc = "recv"
    /\ CASE ev = "packet" /\ IsOurReply(pkt, probe_seq) ->
              /\ probe_clock.wait < TimeoutTicks
              /\ \E r \in 1 .. MaxRtt : RecordAttempt(ReturnRtt(r), ev, <<pkt>>)
              /\ UNCHANGED <<probe_stray, probe_clock>>
         [] ev = "packet" /\ ~IsOurReply(pkt, probe_seq) ->
              /\ probe_clock.wait < TimeoutTicks
              /\ probe_stray' = Min(probe_stray + 1, MaxStray)
              /\ probe_clock' = [probe_clock EXCEPT !.wait = 0]
              /\ UNCHANGED <<probe_pc, rtts, result, probe_seq, attempt_log>>
         [] ev \in {"malformed", "recv_error"} ->
              /\ probe_clock.wait < TimeoutTicks
              /\ RecordAttempt(AttemptExcept(ev), ev, <<>>)
              /\ UNCHANGED <<probe_stray, probe_clock>>
         [] ev = "TimeoutError" ->
              /\ probe_clock.wait = TimeoutTicks
              /\ RecordAttempt(AttemptExcept(ev), ev, <<>>)
              /\ UNCHANGED <<probe_stray, probe_clock>>
    /\ UNCHANGED <<mode, cbVars, rlVars, waits, instVars, connVars, pktVars, statVars, schedVars, pingVars, clientVars, packet_count, probe_sock>>

\* loop.sock_recvfrom(sock, 1024) on the one socket of the series: the
\* datagrams the target may still answer are those that were sent (every
\* attempt sends the same payload from that socket) and whose reply has
\* not been read yet.
Answered(log) == {log[k][4][1] : k \in {n \in 1 .. Len(log) : log[n][4] # <<>>}}
SentBefore(log) == {log[k][1] : k \in {n \in 1 .. Len(log) : log[n][3] # "send_error"}}
Outstanding(log, seq) == (SentBefore(log) \cup {seq}) \ Answered(log)

\* _send_udp_packet: one wait_for(sock_recvfrom, timeout); a datagram from
\* another address falls through to the implicit "return None". A datagram
\* from the target's address is taken as the reply, whichever datagram of
\* the series it answers (origin); rtt = recv_time - send_time of this call.
UdpRecv(ev, origin) ==
    /\ mode = "raw_udp" /\ probe_pc = "recv"
    /\ CASE ev = "from_target" ->
              /\ probe_clock.wait < TimeoutTicks
              /\ origin \in Outstanding(attempt_log, probe_seq)
              /\ \E r \in 1 .. MaxRtt : RecordAttempt(ReturnRtt(r), ev, <<origin>>)
         [] ev = "from_other" ->
              /\ origin = probe_seq
              /\ probe_clock.wait < TimeoutTicks
              /\ RecordAttempt(ReturnNone, ev, <<>>)
         [] ev = "recv_error" ->
              /\ origin = probe_seq
              /\ probe_clock.wait < TimeoutTicks
              /\ RecordAttempt(AttemptExcept(ev), ev, <<>>)
         [] ev = "TimeoutError" ->
              /\ origin = probe_seq
              /\ probe_clock.wait = TimeoutTicks
              /\ RecordAttempt(AttemptExcept(ev), ev, <<>>)
    /\ UNCHANGED <<mode, cbVars, rlVars, waits, instVars, connVars, pktVars, statVars, schedVars, pingVars, clientVars, packet_count, probe_stray,
                   probe_clock, probe_sock>>

\* await asyncio.sleep(...) between attempts
ProbeInterval ==
    /\ mode \in {"icmp", "raw_udp"} /\ probe_pc = "sleep"
    /\ probe_seq' = probe_seq + 1
    /\ probe_pc' = "loop"
    /\ waits' = Append(waits, probe_seq)
    /\ UNCHANGED <<mode, cbVars, rlVars, instVars, connVars, pktVars, statVars, schedVars, pingVars, clientVars, packet_count, probe_stray,
                   probe_clock, rtts, probe_sock, result, attempt_log>>

\* ((packets_sent - packets_received) / packets_sent) * 100
LossPercent(sent, received) == Frac((sent - received) * 100, sent)

\* The statistics block after the loop. With packets_sent = 0 the division
\* raises ZeroDivisionError, which the outer handler stores as the error.
SeriesStatistics(res, q) ==
    LET r1 == IF q # <<>>
                THEN [res EXCEPT !.latency_ms = Frac(SumSeq(q), Len(q)),
                                 !.success = TRUE,
                                 !.jitter_ms =
                                     IF Len(q) > 1
                                       THEN Frac(SumSeq(Diffs(q)), Len(q) - 1)
                                       ELSE @]
                ELSE res
    IN  IF r1.packets_sent = 0
          THEN [r1 EXCEPT !.error = "error: division by zero"]
          ELSE [r1 EXCEPT !.packet_loss_percent =
                              LossPercent(r1.packets_sent, r1.packets_received),
                          !.raw_results = TRUE]

\* result.raw_results = {'rtts': rtts, 'min_rtt': ..., 'max_rtt': ...,
\* 'avg_rtt': ...}: what the result keeps of the single attempts is the list
\* of the round-trip times of those that succeeded.
RetainedAttempts(res, q) ==
    IF res.raw_results
      THEN [k \in 1 .. Len(q) |-> [success |-> TRUE, error |-> None, rtt_ms |-> q[k]]]
      ELSE <<>>

ComputeStatistics ==
    /\ mode \in {"icmp", "raw_udp"} /\ probe_pc = "stats"
    /\ result' = SeriesStatistics(result, rtts)
    /\ probe_pc' = "done"
    /\ UNCHANGED <<mode, cbVars, rlVars, waits, instVars, connVars, pktVars, statVars, schedVars, pingVars, clientVars, packet_count, probe_seq,
                   probe_stray, probe_clock, rtts, probe_sock, attempt_log>>

\* result.packets_received = output.count("time=")
CountReplies(n) == n

\* _run_system_ping: the ping utility ran and printed n lines holding
\* "time=" (duplicates included), with or without a min/avg/max line.
SystemPing(n, has_avg) ==
    /\ mode = "icmp" /\ probe_pc = "system_ping"
    /\ LET r0 == [NewResult EXCEPT !.packets_sent = packet_count,
                                   !.packets_received = CountReplies(n)]
       IN  IF packet_count = 0
             THEN result' = [r0 EXCEPT !.error = "error: division by zero"]
             ELSE result' =
                    [r0 EXCEPT !.packet_loss_percent =
                                   LossPercent(packet_count, CountReplies(n)),
                               !.latency_ms =
                                   IF has_avg \/ n > 0 THEN Frac(1, 1) ELSE @,
                               !.success = has_avg \/ n > 0,
                               !.raw_results = TRUE]
    /\ probe_pc' = "done"
    /\ UNCHANGED <<mode, cbVars, rlVars, waits, instVars, connVars, pktVars, statVars, schedVars, pingVars, clientVars, packet_count, probe_seq,
                   probe_stray, probe_clock, rtts, probe_sock, attempt_log>>

\* _run_system_ping: the wait for the subprocess times out or raises.
SystemPingFails(exc) ==
    /\ mode = "icmp" /\ probe_pc = "system_ping"
    /\ result' = [NewResult EXCEPT !.error = exc]
    /\ probe_pc' = "done"
    /\ UNCHANGED <<mode, cbVars, rlVars, waits, instVars, connVars, pktVars, statVars, schedVars, pingVars, clientVars, packet_count, probe_seq,
                   probe_stray, probe_clock, rtts, probe_sock, attempt_log>>

DnsProbeEvents == {"resolved", "unresolved", "TimeoutError"}

\* _test_dns: wait_for(self._resolve_host(host)). _resolve_host swallows
\* resolver errors and returns None, so only the timeout reaches a handler.
DnsQuery(ev) ==
    /\ mode = "dns_probe" /\ probe_pc = "dns_query"
    /\ result' =
          IF ev = "TimeoutError"
            THEN [result EXCEPT !.error = "timeout",
                                !.latency_ms = Frac(DnsTimeoutMs, 1),
                                !.packets_sent = 1,
                                !.packet_loss_percent = Frac(100, 1)]
            ELSE [result EXCEPT !.latency_ms = Frac(1, 1),
                                !.success = TRUE,
                                !.packets_sent = 1,
                                !.packets_received = 1,
                                !.packet_loss_percent = Frac(0, 1),
                                !.raw_results = TRUE]
    /\ attempt_log' =
          Append(attempt_log,
                 <<0, IF ev = "TimeoutError" THEN AttemptExcept(ev) ELSE ReturnRtt(1),
                   ev, <<>> >>)
    /\ probe_pc' = "done"
    /\ UNCHANGED <<mode, cbVars, rlVars, waits, instVars, connVars, pktVars, statVars, schedVars, pingVars, clientVars, packet_count, probe_seq,
                   probe_stray, probe_clock, rtts, probe_sock>>

ProbeNext ==
    \/ \E ev \in SocketEvents : OpenSocket(ev)
    \/ SeriesLoop
    \/ \E ev \in ProbeSendEvents : ProbeSend(ev)
    \/ WaitTick
    \/ \E pkt \in IcmpPackets : IcmpRecv("packet", pkt)
    \/ \E ev \in IcmpRecvEvents \ {"packet"} :
          \* no parsed packet is involved in these outcomes
          IcmpRecv(ev, [type |-> 0, id |-> IcmpId, seq |-> 0])
    \/ \E origin \in 0 .. MaxPings : UdpRecv("from_target", origin)
    \/ \E ev \in UdpRecvEvents \ {"from_target"} : UdpRecv(ev, probe_seq)
    \/ ProbeInterval
    \/ ComputeStatistics
    \/ \E n \in 0 .. (packet_count + MaxDup) : \E a \in BOOLEAN :
          \* the utility prints its min/avg/max line only after a reply line
          (a => n > 0) /\ SystemPing(n, a)
    \/ \E exc \in {"timeout", "error"} : SystemPingFails(exc)
    \/ \E ev \in DnsProbeEvents : DnsQuery(ev)

\* =====================================================================
\* containerClient: the per-family target loops and run_all_tests
\* =====================================================================
Families == {"http", "tcp", "udp", "icmp"}

ClientIdle ==
    /\ targets = [f \in Families |-> 0]
    /\ fam_pc = [f \in Families |-> "idle"]
    /\ fam_idx = [f \in Families |-> 0]
    /\ fam_results = [f \in Families |-> <<>>]
    /\ all_results = Nothing
    /\ raised_targets = {}
    /\ uploads = {}

\* A family that is disabled takes the same early return as one without
\* targets, so the enable flags are folded into the target counts.
ClientInit ==
    /\ mode = "client"
    /\ targets \in [Families -> 0 .. MaxTargets]
    /\ targets["http"] + targets["tcp"] + targets["udp"] + targets["icmp"]
          <= MaxTargets
    /\ fam_pc = [f \in Families |-> "start"]
    /\ fam_idx = [f \in Families |-> 0]
    /\ fam_results = [f \in Families |-> <<>>]
    /\ all_results = Nothing
    /\ raised_targets = {}
    /\ uploads = {}

\* run_<family>_tests: "if not enabled or not targets: return []", else
\* results = [] and the loop over the targets begins.
FamilyStart(f) ==
    /\ mode = "client" /\ fam_pc[f] = "start"
    /\ fam_pc' = [fam_pc EXCEPT ![f] = IF targets[f] = 0 THEN "returned" ELSE "loop"]
    /\ UNCHANGED <<mode, cbVars, rlVars, waits, instVars, connVars, pktVars, statVars, schedVars, pingVars, probeVars, targets, fam_idx,
                   fam_results, all_results, raised_targets, uploads>>

TargetEvents == {"uploaded", "run_test_raises", "upload_raises"}

\* The fields of the result dataclass of each family, which to_dict
\* (dataclasses.asdict) turns into the keys of the record.
CommonFields ==
    {"test_type", "protocol_detail", "target_host", "target_ip", "latency_ms",
     "success", "error", "raw_results"}
SeriesFields ==
    {"jitter_ms", "packet_loss_percent", "packets_sent", "packets_received"}
ResultFields(f) ==
    CASE f = "icmp" -> CommonFields \cup SeriesFields
      [] f = "udp" -> CommonFields \cup SeriesFields \cup {"target_port"}
      [] f = "tcp" -> CommonFields \cup {"target_port", "connection_time_ms"}
      [] f = "http" ->
            CommonFields \cup {"http_code", "throughput_mbps", "content_length",
                               "time_namelookup", "time_connect",
                               "time_transfer"}

ToDict(f) == ResultFields(f)

\* _upload_result adds the device's identity and a timestamp to the
\* record before it is posted.
DeviceFields ==
    {"device_serial", "device_hostname", "device_os", "device_os_version",
     "timestamp"}
UploadResult(result_data) == result_data \cup DeviceFields

\* The "except Exception" of the target loop: the error is logged, nothing
\* is appended.
TargetExcept(rs, t) == rs

\* One turn of "for target in targets": run_test, results.append(result),
\* _upload_result; an exception of either is caught by the loop's handler.
RunTarget(f, ev) ==
    /\ mode = "client" /\ fam_pc[f] = "loop"
    /\ LET t == fam_idx[f] IN
         /\ fam_results' =
               [fam_results EXCEPT ![f] =
                   CASE ev = "uploaded" ->
                          Append(@, [target |-> t, failed |-> FALSE])
                     [] ev = "upload_raises" ->
                          TargetExcept(Append(@, [target |-> t, failed |-> FALSE]), t)
                     [] ev = "run_test_raises" -> TargetExcept(@, t)]
         /\ raised_targets' = IF ev = "run_test_raises"
                                THEN raised_targets \cup {<<f, t>>}
                                ELSE raised_targets
         /\ uploads' = IF ev = "run_test_raises"
                         THEN uploads
                         ELSE uploads \cup
                                 {[family |-> f, result_dict |-> ToDict(f),
                                   posted |-> UploadResult(ToDict(f))]}
         /\ fam_idx' = [fam_idx EXCEPT ![f] = t + 1]
         /\ fam_pc' = [fam_pc EXCEPT ![f] =
                          IF t + 1 = targets[f] THEN "after_loop" ELSE "loop"]
    /\ UNCHANGED <<mode, cbVars, rlVars, waits, instVars, connVars, pktVars, statVars, schedVars, pingVars, probeVars, targets, all_results>>

\* "return results" (for HTTP after "await http_test.close()")
FamilyReturn(f) ==
    /\ mode = "client" /\ fam_pc[f] = "after_loop"
    /\ fam_pc' = [fam_pc EXCEPT ![f] = "returned"]
    /\ UNCHANGED <<mode, cbVars, rlVars, waits, instVars, connVars, pktVars, statVars, schedVars, pingVars, probeVars, targets, fam_idx,
                   fam_results, all_results, raised_targets, uploads>>

\* run_http_tests: "await http_test.close()" stands outside the try block;
\* if it raises, the exception leaves the coroutine.
HttpCloseRaises ==
    /\ mode = "client" /\ fam_pc["http"] = "after_loop"
    /\ fam_pc' = [fam_pc EXCEPT !["http"] = "raised"]
    /\ UNCHANGED <<mode, cbVars, rlVars, waits, instVars, connVars, pktVars, statVars, schedVars, pingVars, probeVars, targets, fam_idx,
                   fam_results, all_results, raised_targets, uploads>>

\* run_all_tests after gather(..., return_exceptions=True): a family whose
\* coroutine raised contributes the empty list.
FamilyList(f) == IF fam_pc[f] = "raised" THEN <<>> ELSE fam_results[f]

GatherReturns ==
    /\ mode = "client" /\ all_results = Nothing
    /\ \A f \in Families : fam_pc[f] \in {"returned", "raised"}
    /\ all_results' = [f \in Families |-> FamilyList(f)]
    /\ UNCHANGED <<mode, cbVars, rlVars, waits, instVars, connVars, pktVars, statVars, schedVars, pingVars, probeVars, targets, fam_pc,
                   fam_idx, fam_results, raised_targets, uploads>>

ClientNext ==
    \/ \E f \in Families : FamilyStart(f)
    \/ \E f \in Families : \E ev \in TargetEvents : RunTarget(f, ev)
    \/ \E f \in Families : FamilyReturn(f)
    \/ HttpCloseRaises
    \/ GatherReturns

\* =====================================================================
\* containerClient connection probes: raw TCP, TCP+TLS, SSH banner, HTTP
\* =====================================================================
TcpModes == {"raw_tcp", "tcp_tls", "ssh"}
ConnModes == TcpModes \cup {"http"}

TcpTimeoutMs == 10000    \* TcpTest.timeout * 1000
HttpTimeoutMs == 30000   \* HttpTest.timeout * 1000
BannerTimeout == 2       \* the sub-timeout of the banner read, seconds

\* TcpTestResult() / HttpTestResult() as constructed: all defaults. The
\* banner kept in raw_results is <<>> while there is none.
NewConnResult ==
    [success |-> FALSE, error |-> None, latency_ms |-> 0, http_code |-> 0,
     raw_results |-> FALSE, ssh_banner |-> <<>>]

ConnIdle ==
    /\ conn_pc = "idle" /\ conn_result = NewConnResult /\ conn_wait = 0
    /\ conn_events = <<>>

ConnInit ==
    /\ mode \in ConnModes
    /\ conn_pc = IF mode = "http" THEN "session" ELSE "connect"
    /\ conn_result = NewConnResult
    /\ conn_wait = 0
    /\ conn_events = <<>>

\* The except clauses of the TCP probes: TimeoutError, ConnectionRefusedError,
\* ssl.SSLError (TLS only, else it is an Exception like any other), Exception.
TcpExcept(m, res, exc) ==
    CASE exc = "TimeoutError" ->
            [res EXCEPT !.error = "timeout", !.latency_ms = TcpTimeoutMs]
      [] exc = "ConnectionRefusedError" -> [res EXCEPT !.error = "connection_refused"]
      [] exc = "SSLError" /\ m = "tcp_tls" -> [res EXCEPT !.error = "ssl_error"]
      [] OTHER -> [res EXCEPT !.error = "error"]

ConnectEvents(m) ==
    {"connected", "TimeoutError", "ConnectionRefusedError", "OSError"}
       \cup (IF m = "tcp_tls" THEN {"SSLError"} ELSE {})

\* reader, writer = await wait_for(open_connection(host, port[, ssl]), timeout)
\* raw TCP and TLS take the connect time as the latency; SSH goes on to read
\* the banner.
TcpConnect(ev) ==
    /\ mode \in TcpModes /\ conn_pc = "connect"
    /\ ev \in ConnectEvents(mode)
    /\ conn_events' = Append(conn_events, ev)
    /\ IF ev = "connected"
         THEN /\ conn_pc' = IF mode = "ssh" THEN "banner" ELSE "close"
              /\ conn_result' = IF mode = "ssh" THEN conn_result
                                ELSE [conn_result EXCEPT !.latency_ms = 1]
         ELSE /\ conn_pc' = "done"
              /\ conn_result' = TcpExcept(mode, conn_result, ev)
    /\ conn_wait' = 0
    /\ UNCHANGED <<mode, cbVars, rlVars, waits, instVars, pktVars, statVars, schedVars, pingVars, probeVars, clientVars>>

\* Time passes while wait_for(reader.readline(), timeout=2) is pending.
BannerTick ==
    /\ mode = "ssh" /\ conn_pc = "banner"
    /\ conn_wait < BannerTimeout
    /\ conn_wait' = conn_wait + 1
    /\ UNCHANGED <<mode, cbVars, rlVars, waits, instVars, pktVars, statVars, schedVars, pingVars, probeVars, clientVars, conn_pc,
                   conn_result, conn_events>>

BannerEvents == {"line", "eof", "TimeoutError", "ConnectionResetError"}

\* What reader.readline() returns: the line, or b'' when the peer closed the
\* connection before sending anything.
ReadLine(ev) == IF ev = "line" THEN "SSH-2.0-OpenSSH" ELSE ""

\* wait_for lets readline finish only while the sub-timeout has not run out.
BannerInTime(w) == w < BannerTimeout

\* banner = await wait_for(reader.readline(), timeout=2); then the latency
\* is taken and the banner kept for raw_results.
ReadBanner(ev) ==
    /\ mode = "ssh" /\ conn_pc = "banner"
    /\ conn_events' = Append(conn_events, ev)
    /\ CASE ev \in {"line", "eof"} ->
              /\ BannerInTime(conn_wait)
              /\ conn_result' = [conn_result EXCEPT !.latency_ms = 1,
                                                     !.ssh_banner = <<ReadLine(ev)>>]
              /\ conn_pc' = "close"
         [] ev = "ConnectionResetError" ->
              /\ BannerInTime(conn_wait)
              /\ conn_result' = TcpExcept(mode, conn_result, ev)
              /\ conn_pc' = "done"
         [] ev = "TimeoutError" ->
              /\ conn_wait = BannerTimeout
              /\ conn_result' = TcpExcept(mode, conn_result, ev)
              /\ conn_pc' = "done"
    /\ UNCHANGED <<mode, cbVars, rlVars, waits, instVars, pktVars, statVars, schedVars, pingVars, probeVars, clientVars, conn_wait>>

CloseEvents == {"closed", "close_error"}

\* writer.close(); await writer.wait_closed(); result.success = True;
\* result.raw_results = {...}
TcpClose(ev) ==
    /\ mode \in TcpModes /\ conn_pc = "close"
    /\ conn_events' = Append(conn_events, ev)
    /\ conn_result' = IF ev = "closed"
                        THEN [conn_result EXCEPT !.success = TRUE,
                                                 !.raw_results = TRUE]
                        ELSE TcpExcept(mode, conn_result, ev)
    /\ conn_pc' = "done"
    /\ UNCHANGED <<mode, cbVars, rlVars, waits, instVars, pktVars, statVars, schedVars, pingVars, probeVars, clientVars, conn_wait>>

\* if not self.session: self.session = await self._create_session(...)
\* stands before the try block of run_test.
HttpSession(ev) ==
    /\ mode = "http" /\ conn_pc = "session"
    /\ conn_events' = Append(conn_events, ev)
    /\ conn_pc' = IF ev = "created" THEN "request" ELSE "raised"
    /\ UNCHANGED <<mode, cbVars, rlVars, waits, instVars, pktVars, statVars, schedVars, pingVars, probeVars, clientVars, conn_result,
                   conn_wait>>

HttpStatuses == {200, 204, 399, 400, 404, 500}

\* result.success = 200 <= response.status < 400
HttpSuccessStatus(status) == 200 <= status /\ status < 400

\* The except clauses of HttpTest.run_test.
HttpExcept(res, exc) ==
    CASE exc = "TimeoutError" ->
            [res EXCEPT !.error = "timeout", !.latency_ms = HttpTimeoutMs]
      [] exc = "ClientError" -> [res EXCEPT !.error = "client_error"]
      [] OTHER -> [res EXCEPT !.error = "unexpected_error"]

HttpEventsOfGet == {"response", "TimeoutError", "ClientError", "Exception"}

\* async with self.session.get(url, allow_redirects=True) as response: ...
HttpGet(ev, status) ==
    /\ mode = "http" /\ conn_pc = "request"
    /\ conn_events' = Append(conn_events, ev)
    /\ conn_result' =
          IF ev = "response"
            THEN [conn_result EXCEPT !.http_code = status,
                                     !.latency_ms = 1,
                                     !.success = HttpSuccessStatus(status),
                                     !.raw_results = TRUE]
            ELSE HttpExcept(conn_result, ev)
    /\ conn_pc' = "done"
    /\ UNCHANGED <<mode, cbVars, rlVars, waits, instVars, pktVars, statVars, schedVars, pingVars, probeVars, clientVars, conn_wait>>

ConnNext ==
    \/ \E ev \in ConnectEvents(mode) : TcpConnect(ev)
    \/ BannerTick
    \/ \E ev \in BannerEvents : ReadBanner(ev)
    \/ \E ev \in CloseEvents : TcpClose(ev)
    \/ \E ev \in {"created", "create_session_raises"} : HttpSession(ev)
    \/ \E ev \in HttpEventsOfGet : \E status \in HttpStatuses : HttpGet(ev, status)

\* =====================================================================
\* The echo request built by IcmpTest._ping_once
\* (src/containerClient/tests/icmp_test.py)
\* =====================================================================

\* os.getpid() & 0xFFFF: sample identifiers, both bytes zero, one byte
\* zero, both set, all ones.
PidValues == {0, 1, 255, 256, 4660, 65535}

\* seq runs over range(packet_count); 256 and 65535 exercise the high byte.
SeqValues == (0 .. MaxPings) \cup {256, 65535}

\* struct.pack("!d", time.time()) is eight bytes; each is taken from
\* these samples.
TimeBytes == {0, 255}

TimeStamps == [1 .. 8 -> TimeBytes]

\* struct.pack("!H", x): most significant byte first.
PackU16(x) == <<x \div 256, x % 256>>

\* struct.pack("!BBHHH", type, code, checksum, id, seq)
PackHeader(type, code, checksum, id, seq) ==
    <<type, code>> \o PackU16(checksum) \o PackU16(id) \o PackU16(seq)

\* x & 0xffffffff, taken as two 16-bit halves.
Mask32 == [x \in Nat |-> (((x \div 65536) % 65536) * 65536) + (x % 65536)]

\* The while loop of _calculate_checksum: the words are read low byte
\* first and the sum is kept to 32 bits.
RECURSIVE SumWords(_, _, _)
SumWords(bytes, count, checksum) ==
    IF count < (Len(bytes) \div 2) * 2
    THEN SumWords(bytes, count + 2,
                  Mask32[checksum + bytes[count + 2] * 256 + bytes[count + 1]])
    ELSE checksum

\* if count_to < len(data): the last byte is added
AddOddByte(bytes, checksum) ==
    IF (Len(bytes) \div 2) * 2 < Len(bytes)
    THEN Mask32[checksum + bytes[Len(bytes)]]
    ELSE checksum

\* (checksum >> 16) + (checksum & 0xffff)
FoldHigh == [x \in Nat |-> (x \div 65536) + (x % 65536)]

\* checksum + (checksum >> 16)
AddCarry == [x \in Nat |-> x + (x \div 65536)]

\* ~checksum & 0xffff
Complement16 == [x \in Nat |-> 65535 - (x % 65536)]

\* answer >> 8 | (answer << 8 & 0xff00); the two halves share no bit.
SwapBytes == [x \in Nat |-> (x \div 256) + ((x * 256) % 65536)]

\* Faulty variant: the answer is left in the byte order of the sum.
CalculateChecksumUnswapped(bytes) ==
    Complement16[AddCarry[FoldHigh[AddOddByte(bytes, SumWords(bytes, 0, 0))]]]

CalculateChecksum(bytes) ==
    SwapBytes[Complement16[AddCarry[FoldHigh[
        AddOddByte(bytes, SumWords(bytes, 0, 0))]]]]

\* header + data with the checksum field filled in.
EchoRequest(id, seq, stamp) ==
    PackHeader(8, 0, CalculateChecksum(PackHeader(8, 0, 0, id, seq) \o stamp),
               id, seq) \o stamp

PacketIdle ==
    /\ icmp_id = 0
    /\ icmp_seq = <<>>
    /\ data = <<>>
    /\ packet = <<>>

\* The identifier is the process's.
PacketInit ==
    /\ mode = "echo_request"
    /\ icmp_id \in PidValues
    /\ icmp_seq = <<>>
    /\ data = <<>>
    /\ packet = <<>>

\* _ping_once(sock, dest_addr, seq) is entered: icmp_seq = seq
PingOnce(seq) ==
    /\ mode = "echo_request"
    /\ icmp_seq = <<>>
    /\ icmp_seq' = <<seq>>
    /\ UNCHANGED <<mode, cbVars, rlVars, waits, instVars, statVars, schedVars, pingVars, probeVars, clientVars, connVars,
                   icmp_id, data, packet>>

\* The clock is read and the packet is put together.
BuildPacket(stamp) ==
    /\ mode = "echo_request"
    /\ icmp_seq # <<>>
    /\ packet = <<>>
    /\ data' = stamp
    /\ packet' = EchoRequest(icmp_id, icmp_seq[1], stamp)
    /\ UNCHANGED <<mode, cbVars, rlVars, waits, instVars, statVars, schedVars, pingVars, probeVars, clientVars, connVars,
                   icmp_id, icmp_seq>>

PacketNext ==
    /\ mode = "echo_request"
    /\ \/ \E seq \in SeqValues : PingOnce(seq)
       \/ \E stamp \in TimeStamps : BuildPacket(stamp)

\* =====================================================================
\* The statistics over the successful samples
\* (httptrace_async.py run_async, resolverTime_async.py
\* calculate_statistics)
\* =====================================================================
StatModes == {"http_stats", "dns_stats"}

\* r['time_total'] / r.query_time_ms of a successful result
SampleTimes == {1, 2}

\* The literals 0.5, 0.9, 0.95 and 0.99 as exact fractions.
P50 == Frac(5, 10)
P90 == Frac(9, 10)
P95 == Frac(95, 100)
P99 == Frac(99, 100)

\* resolverTime reports percentiles "for larger samples" only
DnsPercentileMin == 10

\* sorted(times): insertion of one element into an ascending list
InsertSorted[x \in Nat, q \in Seq(Nat)] ==
    IF q = <<>> THEN <<x>>
    ELSE IF x <= Head(q) THEN <<x>> \o q
    ELSE <<Head(q)>> \o InsertSorted[x, Tail(q)]

Sorted[q \in Seq(Nat)] ==
    IF q = <<>> THEN <<>> ELSE InsertSorted[Head(q), Sorted[Tail(q)]]

\* Faulty variant: the rank is taken among the n - 1 gaps.
PercentileIndexOfGaps(n, p) == ((n - 1) * p.num) \div p.den

\* int(len(sorted_times) * p), as an index from 0. The product is a
\* float in the code; it truncates to the same integer as the exact
\* product for every list length up to 200000.
PercentileIndex(n, p) == (n * p.num) \div p.den

\* sorted_times[int(len(sorted_times) * p)]
Percentile(sorted, p) == sorted[PercentileIndex(Len(sorted), p) + 1]

\* Faulty variant: the middle element of the samples as they came in.
MedianUnsorted(q) ==
    LET n == Len(q)
    IN  IF n % 2 = 1 THEN Frac(q[(n \div 2) + 1], 1)
        ELSE Frac(q[n \div 2] + q[(n \div 2) + 1], 2)

\* statistics.median: the middle element, or the mean of the two middle
\* elements of an even number of samples.
Median(q) ==
    LET sorted == Sorted[q]
        n == Len(q)
    IN  IF n % 2 = 1 THEN Frac(sorted[(n \div 2) + 1], 1)
        ELSE Frac(sorted[n \div 2] + sorted[(n \div 2) + 1], 2)

\* The percentiles each tool reports for a list of n samples.
ReportedPercentiles(m, n) ==
    IF m = "http_stats" THEN {P50, P90, P95, P99}
    ELSE IF n >= DnsPercentileMin THEN {P90, P95, P99}
    ELSE {}

\* if successful_results: times = [...]; min, max, median, percentiles;
\* without a successful result httptrace stores an error text and
\* resolverTime leaves query_times None.
TimeStatistics(m, q) ==
    IF q = <<>>
      THEN IF m = "http_stats"
             THEN [error |-> "No successful requests completed"]
             ELSE Nothing
      ELSE [min_time |-> Sorted[q][1],
            max_time |-> Sorted[q][Len(q)],
            median_time |-> Median(q),
            all_times |-> q,
            percentiles |-> [p \in ReportedPercentiles(m, Len(q)) |->
                                Percentile(Sorted[q], p)]]

StatsIdle ==
    /\ times = <<>> /\ stats_pc = "idle" /\ stats = Nothing

StatsInit ==
    /\ mode \in StatModes
    /\ times = <<>>
    /\ stats_pc = "collect"
    /\ stats = Nothing

\* One more successful result: its time joins the list.
AddSample(t) ==
    /\ mode \in StatModes /\ stats_pc = "collect"
    /\ Len(times) < MaxSamples
    /\ times' = Append(times, t)
    /\ UNCHANGED <<mode, cbVars, rlVars, waits, instVars, schedVars, pingVars, probeVars, clientVars, connVars,
                   pktVars, stats_pc, stats>>

SummarizeTimes ==
    /\ mode \in StatModes /\ stats_pc = "collect"
    /\ stats' = TimeStatistics(mode, times)
    /\ stats_pc' = "done"
    /\ UNCHANGED <<mode, cbVars, rlVars, waits, instVars, schedVars, pingVars, probeVars, clientVars, connVars,
                   pktVars, times>>

StatsNext ==
    \/ \E t \in SampleTimes : AddSample(t)
    \/ SummarizeTimes

\* =====================================================================
\* One HttpTest instance used for several targets
\* (src/containerClient/tests/http_test.py, client.py run_http_tests)
\* =====================================================================

\* The keys the trace callbacks write into timing_data.
DnsPhases == {"dns_start", "dns_end"}
ConnectPhases == {"connect_start", "connect_end"}
RequestPhases == {"request_start", "request_end"}

\* The callbacks aiohttp runs during one request: the request hooks
\* always, the resolver and connection hooks when a connection is made
\* rather than taken from the pool; a request that fails ends no phase it
\* had begun.
PhasesFired(ev, new_conn) ==
    IF ev = "response"
      THEN RequestPhases \cup (IF new_conn THEN DnsPhases \cup ConnectPhases
                               ELSE {})
      ELSE {"request_start"} \cup (IF new_conn THEN {"dns_start"} ELSE {})

\* timing_data[key] = time.perf_counter(), run by the callbacks of the
\* trace_config the session was created with: they write into the dict
\* of the call that created the session. call is the request under way.
RunCallbacks(dicts, owner, call, fired) ==
    [k \in 1 .. Len(dicts) |->
        IF k = owner
          THEN [ph \in (DOMAIN dicts[k]) \cup fired |->
                   IF ph \in fired THEN call ELSE dicts[k][ph]]
          ELSE dicts[k]]

\* "if a in timing_data and b in timing_data: result.x = (b - a) * 1000":
\* the request whose timestamps the value is derived from, 0 when the
\* value is left at its default.
Derived(dict, a, b) ==
    IF a \in DOMAIN dict /\ b \in DOMAIN dict THEN dict[b] ELSE 0

InstanceIdle ==
    /\ http_session = 0 /\ http_pc = "idle" /\ timing_data = <<>>
    /\ http_results = <<>>

\* HttpTest(timeout=30): self.session = None
InstanceInit ==
    /\ mode = "http_instance"
    /\ http_session = 0
    /\ http_pc = "between"
    /\ timing_data = <<>>
    /\ http_results = <<>>

\* "if not self.session: self.session = await self._create_session(
\* [trace_config])": the session, and with it the trace_config, of the
\* first call is kept by the later ones.
SessionOfCall(owner, call) == IF owner = 0 THEN call ELSE owner

\* run_test is entered: timing_data = {}, the callbacks are defined, the
\* session is created if there is none.
RunTestBegins(ev) ==
    /\ mode = "http_instance" /\ http_pc = "between"
    /\ Len(timing_data) < MaxCalls
    /\ timing_data' = Append(timing_data, <<>>)
    /\ IF ev = "create_session_raises" /\ http_session = 0
         THEN /\ http_session' = 0
              /\ http_pc' = "between"
              /\ http_results' = Append(http_results, Raised)
         ELSE /\ http_session' = SessionOfCall(http_session, Len(timing_data) + 1)
              /\ http_pc' = "request"
              /\ http_results' = http_results
    /\ UNCHANGED <<mode, cbVars, rlVars, waits, schedVars, pingVars, probeVars, clientVars,
                   connVars, pktVars, statVars>>

RequestEvents == {"response", "TimeoutError", "ClientError"}

\* session.get(...): the callbacks run, then either the response is read
\* and the timings are derived from this call's timing_data, or an
\* except clause stores the error.
RunTestRequest(ev, new_conn) ==
    /\ mode = "http_instance" /\ http_pc = "request"
    \* the first request of a session finds no connection in its pool
    /\ http_session = Len(timing_data) => new_conn
    /\ LET call == Len(timing_data)
           fired == PhasesFired(ev, new_conn)
           dicts == RunCallbacks(timing_data, http_session, call, fired)
       IN  /\ timing_data' = dicts
           /\ http_results' =
                 Append(http_results,
                        [outcome |-> ev,
                         session_of |-> http_session,
                         fired |-> fired,
                         time_namelookup |->
                            IF ev = "response"
                              THEN Derived(dicts[call], "dns_start", "dns_end")
                              ELSE 0,
                         time_connect |->
                            IF ev = "response"
                              THEN Derived(dicts[call], "connect_start",
                                           "connect_end")
                              ELSE 0,
                         time_transfer |->
                            IF ev = "response"
                              THEN Derived(dicts[call], "request_start",
                                           "request_end")
                              ELSE 0])
    /\ http_pc' = "between"
    /\ UNCHANGED <<mode, cbVars, rlVars, waits, schedVars, pingVars, probeVars, clientVars,
                   connVars, pktVars, statVars, http_session>>

\* close(): "if self.session: await self.session.close();
\* self.session = None"
InstanceClose ==
    /\ mode = "http_instance" /\ http_pc = "between"
    /\ http_session # 0
    /\ http_session' = 0
    /\ UNCHANGED <<mode, cbVars, rlVars, waits, schedVars, pingVars, probeVars, clientVars,
                   connVars, pktVars, statVars, http_pc, timing_data,
                   http_results>>

InstanceNext ==
    \/ \E ev \in {"created", "create_session_raises"} : RunTestBegins(ev)
    \/ \E ev \in RequestEvents : \E new_conn \in BOOLEAN :
          RunTestRequest(ev, new_conn)
    \/ InstanceClose

\* =====================================================================
\* Shared HTTP client: retries and circuit breaker
\* =====================================================================
\* class CircuitState(Enum)
CircuitState == [CLOSED |-> "closed", OPEN |-> "open", HALF_OPEN |-> "half_open"]

\* CircuitBreakerState(): the dataclass defaults
CircuitBreakerState ==
    [state |-> CircuitState.CLOSED, failure_count |-> 0, success_count |-> 0,
     last_failure_time |-> 0]

\* _check_circuit_breaker: what it leaves in self._circuit_state and whether
\* it raises "Circuit breaker is OPEN".
CheckCircuitBreaker(enabled, cs, now) ==
    IF ~enabled THEN [raises |-> FALSE, cs |-> cs]
    ELSE IF cs.state = CircuitState.OPEN
      THEN IF now - cs.last_failure_time >= OpenTimeout
             THEN [raises |-> FALSE,
                   cs |-> [cs EXCEPT !.state = CircuitState.HALF_OPEN,
                                     !.success_count = 0]]
             ELSE [raises |-> TRUE, cs |-> cs]
      ELSE [raises |-> FALSE, cs |-> cs]

\* _record_success
RecordSuccess(enabled, cs) ==
    IF ~enabled THEN cs
    ELSE IF cs.state = CircuitState.HALF_OPEN
      THEN IF cs.success_count + 1 >= SuccessThreshold
             THEN [cs EXCEPT !.success_count = @ + 1,
                             !.state = CircuitState.CLOSED,
                             !.failure_count = 0]
             ELSE [cs EXCEPT !.success_count = @ + 1]
    ELSE IF cs.state = CircuitState.CLOSED
      THEN [cs EXCEPT !.failure_count = 0]
      ELSE cs

\* _record_failure
RecordFailure(enabled, cs, now) ==
    IF ~enabled THEN cs
    ELSE LET c1 == [cs EXCEPT !.last_failure_time = now]
         IN  IF c1.state = CircuitState.HALF_OPEN
               THEN [c1 EXCEPT !.state = CircuitState.OPEN, !.failure_count = 0]
             ELSE IF c1.state = CircuitState.CLOSED
               THEN IF c1.failure_count + 1 >= FailureThreshold
                      THEN [c1 EXCEPT !.failure_count = @ + 1,
                                      !.state = CircuitState.OPEN]
                      ELSE [c1 EXCEPT !.failure_count = @ + 1]
               ELSE c1

NoRequest == [kind |-> "none"]

HttpClientIdle ==
    /\ cb_enabled = FALSE /\ circuit_state = CircuitBreakerState /\ cb_time = 0
    /\ request_pc = "off" /\ attempt = 0 /\ last_request = NoRequest

\* HTTPClient(config)
HttpClientInit ==
    /\ mode = "http_client"
    /\ cb_enabled \in BOOLEAN
    /\ circuit_state = CircuitBreakerState
    /\ cb_time = 0
    /\ request_pc = "idle"
    /\ attempt = 0
    /\ last_request = NoRequest

\* _request_with_retry up to the loop: self._check_circuit_breaker() once,
\* then "for attempt in range(max_retries + 1)" begins.
RequestBegins ==
    /\ mode = "http_client" /\ request_pc = "idle"
    /\ LET chk == CheckCircuitBreaker(cb_enabled, circuit_state, cb_time)
       IN  /\ circuit_state' = chk.cs
           /\ IF chk.raises
                THEN /\ request_pc' = "idle"
                     /\ last_request' = [kind |-> "rejected"]
                ELSE /\ request_pc' = "attempt"
                     /\ last_request' = NoRequest
    /\ attempt' = 0
    /\ UNCHANGED <<mode, waits, cb_enabled, cb_time, rlVars, schedVars, pingVars,
                   probeVars, clientVars, connVars, pktVars, statVars, instVars>>

\* "ok": a response that raise_for_status accepts; "client_error": an
\* HTTPStatusError with a 4xx status other than 429; "retryable_error": any
\* other HTTPError / RequestError (5xx, 429, transport failures).
ResponseEvents == {"ok", "client_error", "retryable_error"}

\* One turn of the loop: self._client.request(...), then _record_success
\* and return, or _record_failure and either raise or go on to the delay.
RequestAttempt(ev) ==
    /\ mode = "http_client" /\ request_pc = "attempt"
    /\ last_request' = [kind |-> "sent", attempt |-> attempt,
                        state |-> circuit_state.state,
                        elapsed |-> cb_time - circuit_state.last_failure_time]
    /\ IF ev = "ok"
         THEN /\ circuit_state' = RecordSuccess(cb_enabled, circuit_state)
              /\ request_pc' = "idle"
         ELSE /\ circuit_state' = RecordFailure(cb_enabled, circuit_state, cb_time)
              /\ request_pc' = IF ev = "client_error" \/ attempt >= MaxRetries
                                 THEN "idle" ELSE "sleep"
    /\ UNCHANGED <<mode, waits, cb_enabled, cb_time, attempt, rlVars, schedVars,
                   pingVars, probeVars, clientVars, connVars, pktVars, statVars,
                   instVars>>

\* delay = self._calculate_delay(attempt); time.sleep(delay): the delay is
\* positive, and the next turn of the loop follows with no further check.
RetryDelay(delay) ==
    /\ mode = "http_client" /\ request_pc = "sleep"
    /\ cb_time + delay <= MaxTime
    /\ cb_time' = cb_time + delay
    /\ attempt' = attempt + 1
    /\ request_pc' = "attempt"
    /\ UNCHANGED <<mode, waits, cb_enabled, circuit_state, last_request, rlVars,
                   schedVars, pingVars, probeVars, clientVars, connVars, pktVars,
                   statVars, instVars>>

\* Time passes between calls and while a request is under way.
HttpClientTick ==
    /\ mode = "http_client" /\ request_pc \in {"idle", "attempt"}
    /\ cb_time < MaxTime
    /\ cb_time' = cb_time + 1
    /\ UNCHANGED <<mode, waits, cb_enabled, circuit_state, request_pc, attempt,
                   last_request, rlVars, schedVars, pingVars, probeVars,
                   clientVars, connVars, pktVars, statVars, instVars>>

HttpClientNext ==
    \/ RequestBegins
    \/ \E ev \in ResponseEvents : RequestAttempt(ev)
    \/ \E delay \in 1 .. MaxDelay : RetryDelay(delay)
    \/ HttpClientTick

\* =====================================================================
\* gRPC RateLimitInterceptor
\* =====================================================================
\* The server's handler threads, and the client identifiers requests carry
\* (the token's "sub", 'anonymous' without a usable token).
Threads == {"t1", "t2"}
ClientIds == {"anonymous", "alice"}

\* RateLimitEntry(): count = 0, window_start = 0.0
RateLimitEntry == [count |-> 0, window_start |-> 0]

HandlerIdle == [pc |-> "idle"]

\* time.time() at the start of a run: far more than a window after 0.0
Epoch == WindowTicks

RateLimitIdle ==
    /\ limits = [c \in ClientIds |-> RateLimitEntry] /\ rl_time = 0
    /\ handlers = [t \in Threads |-> [pc |-> "off"]]
    /\ admitted = [c \in ClientIds |-> <<>>]

\* RateLimitInterceptor(requests_per_minute): limits is a defaultdict
RateLimitInit ==
    /\ mode = "rate_limit"
    /\ limits = [c \in ClientIds |-> RateLimitEntry]
    /\ rl_time = Epoch
    /\ handlers = [t \in Threads |-> HandlerIdle]
    /\ admitted = [c \in ClientIds |-> <<>>]

\* intercept_service up to the lock: current_time = time.time() is read.
\* The client identifier, which depends on the request's metadata only, is
\* drawn where it is used, under the lock.
InterceptService(t) ==
    /\ mode = "rate_limit" /\ handlers[t].pc = "idle"
    /\ handlers' = [handlers EXCEPT ![t] = [pc |-> "timed", current_time |-> rl_time]]
    /\ UNCHANGED <<mode, waits, limits, rl_time, admitted, cbVars, schedVars,
                   pingVars, probeVars, clientVars, connVars, pktVars, statVars,
                   instVars>>

\* "Reset window if expired"
ResetIfExpired(entry, current_time) ==
    IF current_time - entry.window_start >= WindowTicks
      THEN [count |-> 0, window_start |-> current_time]
      ELSE entry

\* "with self.lock:" as one step: the window reset, the limit check, and
\* either the abort with RESOURCE_EXHAUSTED or the increment followed by
\* continuation(handler_call_details).
CheckRateLimit(t, client_id) ==
    /\ mode = "rate_limit" /\ handlers[t].pc = "timed"
    /\ LET c == client_id
           entry == ResetIfExpired(limits[c], handlers[t].current_time)
       IN  IF entry.count >= RequestsPerMinute
             THEN /\ limits' = [limits EXCEPT ![c] = entry]
                  /\ admitted' = admitted
             ELSE /\ limits' = [limits EXCEPT ![c] = [entry EXCEPT !.count = @ + 1]]
                  /\ admitted' = [admitted EXCEPT ![c] =
                                      InsertSorted[handlers[t].current_time, @]]
    /\ handlers' = [handlers EXCEPT ![t] = HandlerIdle]
    /\ UNCHANGED <<mode, waits, rl_time, cbVars, schedVars, pingVars, probeVars,
                   clientVars, connVars, pktVars, statVars, instVars>>

RateLimitTick ==
    /\ mode = "rate_limit"
    /\ rl_time < Epoch + MaxTicks
    /\ rl_time' = rl_time + 1
    /\ UNCHANGED <<mode, waits, limits, handlers, admitted, cbVars, schedVars,
                   pingVars, probeVars, clientVars, connVars, pktVars, statVars,
                   instVars>>

RateLimitNext ==
    \/ \E t \in Threads : InterceptService(t)
    \/ \E t \in Threads, client_id \in ClientIds : CheckRateLimit(t, client_id)
    \/ RateLimitTick

\* =====================================================================
Init ==
    /\ waits = <<>>
    /\ \/ SchedInit /\ PingIdle /\ ProbeIdle /\ ClientIdle /\ ConnIdle /\ PacketIdle
          /\ StatsIdle /\ InstanceIdle /\ HttpClientIdle /\ RateLimitIdle
       \/ PingInit /\ SchedIdle /\ ProbeIdle /\ ClientIdle /\ ConnIdle /\ PacketIdle
          /\ StatsIdle /\ InstanceIdle /\ HttpClientIdle /\ RateLimitIdle
       \/ ProbeInit /\ SchedIdle /\ PingIdle /\ ClientIdle /\ ConnIdle /\ PacketIdle
          /\ StatsIdle /\ InstanceIdle /\ HttpClientIdle /\ RateLimitIdle
       \/ ClientInit /\ SchedIdle /\ PingIdle /\ ProbeIdle /\ ConnIdle /\ PacketIdle
          /\ StatsIdle /\ InstanceIdle /\ HttpClientIdle /\ RateLimitIdle
       \/ ConnInit /\ SchedIdle /\ PingIdle /\ ProbeIdle /\ ClientIdle /\ PacketIdle
          /\ StatsIdle /\ InstanceIdle /\ HttpClientIdle /\ RateLimitIdle
       \/ PacketInit /\ SchedIdle /\ PingIdle /\ ProbeIdle /\ ClientIdle /\ ConnIdle
          /\ StatsIdle /\ InstanceIdle /\ HttpClientIdle /\ RateLimitIdle
       \/ StatsInit /\ SchedIdle /\ PingIdle /\ ProbeIdle /\ ClientIdle /\ ConnIdle
          /\ PacketIdle /\ InstanceIdle /\ HttpClientIdle /\ RateLimitIdle
       \/ InstanceInit /\ SchedIdle /\ PingIdle /\ ProbeIdle /\ ClientIdle /\ ConnIdle
          /\ PacketIdle /\ StatsIdle /\ HttpClientIdle /\ RateLimitIdle
       \/ HttpClientInit /\ SchedIdle /\ PingIdle /\ ProbeIdle /\ ClientIdle /\ ConnIdle
          /\ PacketIdle /\ StatsIdle /\ InstanceIdle /\ RateLimitIdle
       \/ RateLimitInit /\ SchedIdle /\ PingIdle /\ ProbeIdle /\ ClientIdle /\ ConnIdle
          /\ PacketIdle /\ StatsIdle /\ InstanceIdle /\ HttpClientIdle

Next ==
    \/ SchedNext \/ PingNext \/ ProbeNext \/ ClientNext \/ ConnNext
    \/ PacketNext \/ StatsNext \/ InstanceNext \/ HttpClientNext \/ RateLimitNext

Spec == Init /\ [][Next]_vars

\* The event loop keeps running whatever is ready, and every started
\* operation ends (each carries a timeout).
FairSpec == Spec /\ WF_vars(Next)

\* =====================================================================
\* Properties
\* =====================================================================

\* C1: during a scheduled run the number of attempts that hold a slot
\* (acquired, not yet released) never exceeds the concurrency limit, at
\* every moment and as a running maximum.
C1_InFlightWithinLimit ==
    mode \in SchedModes =>
        /\ Cardinality(InFlight) <= concurrent
        /\ max_in_flight <= concurrent

\* The limit is reached while another attempt is waiting for a slot.
C1_Witness ==
    /\ mode \in SchedModes
    /\ concurrent = 2
    /\ Cardinality(InFlight) = 2
    /\ sem_waiters # <<>>

\* C2: isolation. When run_all_tests has returned, every configured target
\* of every family has exactly one result in the returned lists; a target
\* whose test raised is there as a failed result, and the other targets of
\* the batch are there with their own results.
C2_EveryTargetHasResult ==
    (mode = "client" /\ ~IsNone(all_results)) =>
        \A f \in Families :
            /\ Len(all_results[f]) = targets[f]
            /\ \A t \in 0 .. (targets[f] - 1) :
                  \E k \in 1 .. Len(all_results[f]) :
                      /\ all_results[f][k].target = t
                      /\ all_results[f][k].failed = (<<f, t>> \in raised_targets)

C4_CompletionOrderTagged ==
    (mode \in SchedModes /\ sched_pc \in {"stats", "done"}) =>
        /\ Len(test_results) = Len(completion_order)
        /\ \A k \in 1 .. Len(test_results) :
              /\ test_results[k] = task_result[completion_order[k]]
              /\ \/ /\ "request_id" \in DOMAIN test_results[k]
                    /\ test_results[k].request_id = completion_order[k]
                 \/ /\ "query_id" \in DOMAIN test_results[k]
                    /\ test_results[k].query_id = completion_order[k]

\* C5: slot handling is completion-driven. A slot is given back whenever an
\* attempt completes, so nobody waits while a slot is free, the slots that
\* are free and the slots that are held always add up to the limit, all
\* slots are free when the run has ended, and every scheduled run ends
\* (every submitted attempt starts and completes).
C5_CompletionDrivenSlots ==
    /\ [](mode \in SchedModes /\ sched_pc \in {"collect", "stats", "done"} =>
            /\ sem_value + Cardinality(InFlight) = concurrent
            /\ sem_waiters # <<>> => Cardinality(InFlight) = concurrent
            /\ sched_pc \in {"stats", "done"} =>
                  sem_value = concurrent /\ InFlight = {})
    /\ <>(mode \in SchedModes => sched_pc \in {"done", "raised"})

C7_NoStartAfterCancel ==
    mode = "udp_ping" =>
        /\ started_after_cancel = 0
        /\ ping_pc # "raised"
        /\ ping_pc \in {"check", "sleep", "stats", "done"} =>
              Len(ping_results) = ping_started
        /\ ping_pc \in {"create_socket", "send", "recv"} =>
              Len(ping_results) + 1 = ping_started
        /\ ping_pc = "done" =>
              /\ ~IsNone(ping_stats)
              /\ ping_stats.packets_transmitted = ping_started

\* A series of three was interrupted during its second attempt: two attempts
\* are on record, the third was never started, statistics are there.
C7_Witness ==
    /\ mode = "udp_ping" /\ ping_pc = "done" /\ ~running
    /\ ping_count = 3 /\ ping_started = 2
    /\ Len(ping_results) = 2
    /\ ping_stats.packets_transmitted = 2

\* C8: a series of N attempts cancelled after k < N of them reports
\* packets sent = k, computes its statistics from exactly those k attempts,
\* and has closed every socket it opened.
C8_CancelledRunIsClean ==
    (mode = "udp_ping" /\ ping_pc = "done" /\ ~running
       /\ Len(ping_results) < ping_count) =>
        /\ ping_stats.packets_transmitted = Len(ping_results)
        /\ ping_stats.packets_received + ping_stats.packets_lost
              = Len(ping_results)
        /\ ping_stats.from_seqs = [k \in 1 .. Len(ping_results) |-> k - 1]
        /\ socks_opened \subseteq socks_closed

\* C9: without cancellation, statistics exist only when every attempt of the
\* run has resolved: the scheduler has collected one result per attempt
\* and every task is finished, the series loop has gone through all its
\* attempts.
C9_StatsAfterAllResolved ==
    /\ (mode \in SchedModes /\ (sched_pc \in {"stats", "done"} \/ ~IsNone(summary))) =>
          /\ \A i \in TaskIds : tasks[i] = "done"
          /\ Len(test_results) = tries
          /\ completed = <<>>
          /\ ~IsNone(summary) => summary.total = tries
    /\ (mode \in {"icmp", "raw_udp"} /\ probe_sock \in {"open", "closed"}
          /\ (probe_pc = "stats" \/ result.raw_results \/ result.success)) =>
          /\ Len(attempt_log) = packet_count
          /\ result.packets_received = Len(rtts)
    /\ (mode = "udp_ping" /\ running
          /\ (ping_pc = "stats" \/ ~IsNone(ping_stats))) =>
          /\ Len(ping_results) = ping_count
          /\ ~IsNone(ping_stats) => ping_stats.packets_transmitted = ping_count

\* A scheduled run of three attempts of which one failed has its summary,
\* over all three.
C9_Witness ==
    /\ mode \in SchedModes /\ tries = 3 /\ concurrent = 2
    /\ ~IsNone(summary)
    /\ summary.total = 3 /\ summary.failed = 1

\* C10: in every final result with packets sent >= 1, whichever path made
\* it, packet_loss_percent = 100 * (sent - received) / sent, it lies in
\* [0, 100], and received does not exceed sent.
C10_LossPercent ==
    /\ (mode \in ProbeModes /\ probe_pc = "done" /\ result.packets_sent >= 1
          /\ result.error = None) =>
          /\ result.packets_received <= result.packets_sent
          /\ FracEq(result.packet_loss_percent,
                    Frac(100 * (result.packets_sent - result.packets_received),
                         result.packets_sent))
          /\ result.packet_loss_percent.num >= 0
          /\ result.packet_loss_percent.num
                <= 100 * result.packet_loss_percent.den
    /\ (mode = "udp_ping" /\ ~IsNone(ping_stats)
          /\ ping_stats.packets_transmitted >= 1) =>
          /\ ping_stats.packets_received <= ping_stats.packets_transmitted
          /\ FracEq(ping_stats.packet_loss_percent,
                    Frac(100 * (ping_stats.packets_transmitted
                                  - ping_stats.packets_received),
                         ping_stats.packets_transmitted))
          /\ ping_stats.packet_loss_percent.num >= 0
          /\ ping_stats.packet_loss_percent.num
                <= 100 * ping_stats.packet_loss_percent.den

\* C11: an ICMP attempt is over (matched or timed out) no later than the
\* attempt timeout after its packet was sent, also when packets that do not
\* match keep arriving: the wait for the reply is never still pending with
\* more than the timeout gone since the send, and a timeout is only reported
\* when exactly the timeout has passed since the send.
C11_AttemptEndsWithinTimeout ==
    mode = "icmp" =>
        /\ probe_pc = "recv" => probe_clock.elapsed <= TimeoutTicks
        /\ (/\ probe_pc \in {"sleep", "loop"}
            /\ attempt_log # <<>>
            /\ attempt_log[Len(attempt_log)][3] = "TimeoutError") =>
              probe_clock.elapsed = TimeoutTicks

\* C12: an ICMP attempt with sequence number s is successful only if the
\* packet it ended on was an echo reply (type 0) with the driver's identifier
\* and sequence s; a packet with another type, identifier or sequence never
\* ends an attempt, neither as a success nor otherwise.
C12_SuccessOnlyOnMatch ==
    mode = "icmp" =>
        \A k \in 1 .. Len(attempt_log) :
            LET seq == attempt_log[k][1]
                out == attempt_log[k][2]
                ev  == attempt_log[k][3]
                pkt == attempt_log[k][4]
            IN  /\ ~IsNone(out) => ev = "packet"
                /\ ev = "packet" =>
                      /\ ~IsNone(out)
                      /\ Len(pkt) = 1
                      /\ pkt[1].type = 0
                      /\ pkt[1].id = IcmpId
                      /\ pkt[1].seq = seq

\* The second attempt (sequence 1) saw a packet that was not its reply, kept
\* waiting, and then succeeded on the reply with sequence 1.
C12_Witness ==
    /\ mode = "icmp"
    /\ Len(attempt_log) = 2
    /\ probe_stray = 1
    /\ ~IsNone(attempt_log[2][2])
    /\ attempt_log[2][4][1].seq = 1

\* C13: every socket a probe driver opens is closed on every exit path: when
\* an ICMP or raw UDP probe has returned its socket is not left open, and
\* between the attempts of the archived UDP ping every socket opened so far
\* has been closed.
C13_SocketsClosedOnEveryPath ==
    /\ (mode \in {"icmp", "raw_udp"} /\ probe_pc = "done") => probe_sock # "open"
    /\ (mode = "udp_ping" /\ ping_pc \in {"check", "sleep", "stats", "done"}) =>
          socks_opened \subseteq socks_closed

\* C14: a raw UDP attempt succeeds exactly when it ended on a datagram from
\* the target's address, received before the timeout ran out; a datagram
\* from another address never ends an attempt (the wait for the target's
\* reply goes on).
C14_UdpReplyFromTarget ==
    mode = "raw_udp" =>
        \A k \in 1 .. Len(attempt_log) :
            /\ ~IsNone(attempt_log[k][2]) <=> attempt_log[k][3] = "from_target"
            /\ attempt_log[k][3] # "from_other"

\* C15: the DNS variant reports 1 sent and 1 received only when the name was
\* resolved; when the resolution times out or fails (NXDOMAIN, resolver
\* error) it reports 1 sent, 0 received and success = false.
C15_DnsReceivedOnlyWhenResolved ==
    (mode = "dns_probe" /\ probe_pc = "done") =>
        /\ result.packets_sent = 1
        /\ Len(attempt_log) = 1
        /\ IF attempt_log[1][3] = "resolved"
             THEN result.packets_received = 1 /\ result.success
             ELSE result.packets_received = 0 /\ ~result.success

\* C16: a UDP probe of count N >= 1 in which every attempt ran into its
\* timeout reports packets sent = N, received = 0, loss = 100 %, and has each
\* of the N attempts on record with success = False and error = "timeout".
C16_AllTimeoutsScenario ==
    /\ (/\ mode = "udp_ping" /\ ping_pc = "done" /\ running /\ ping_count >= 1
        /\ \A k \in 1 .. Len(ping_results) : ping_results[k].error = "timeout") =>
          /\ ping_stats.packets_transmitted = ping_count
          /\ ping_stats.packets_received = 0
          /\ FracEq(ping_stats.packet_loss_percent, Frac(100, 1))
          /\ Len(ping_results) = ping_count
          /\ \A k \in 1 .. Len(ping_results) : ~ping_results[k].success
    /\ (/\ mode = "raw_udp" /\ probe_pc = "done" /\ probe_sock = "closed"
        /\ packet_count >= 1
        /\ \A k \in 1 .. Len(attempt_log) : attempt_log[k][3] = "TimeoutError") =>
          /\ result.packets_sent = packet_count
          /\ result.packets_received = 0
          /\ FracEq(result.packet_loss_percent, Frac(100, 1))
          /\ Len(RetainedAttempts(result, rtts)) = packet_count
          /\ \A k \in 1 .. Len(RetainedAttempts(result, rtts)) :
                /\ ~RetainedAttempts(result, rtts)[k].success
                /\ RetainedAttempts(result, rtts)[k].error = "timeout"

\* C17: when the raw ICMP socket is refused for lack of privilege the probe
\* does not raise and sends no raw packet: it goes to the system-ping
\* fallback and what it returns is the result that path produced (counts
\* taken from the ping utility's output, or the fallback's own error).
C17_PermissionFallback ==
    (mode = "icmp" /\ probe_sock = "denied") =>
        /\ probe_pc \in {"system_ping", "done"}
        /\ attempt_log = <<>>
        /\ rtts = <<>>
        /\ probe_pc = "done" =>
              \/ result.error \in {"timeout", "error", "error: division by zero"}
              \/ /\ result.error = None
                 /\ result.raw_results
                 /\ result.packets_sent = packet_count

\* The raw socket was refused and the fallback reported two replies of three.
C17_Witness ==
    /\ mode = "icmp" /\ probe_sock = "denied" /\ probe_pc = "done"
    /\ packet_count = 3
    /\ result.success
    /\ result.packets_received = 2

\* C18: an SSH probe reports success only if a banner line was received
\* within the 2 s sub-timeout after the connect; when the connection is
\* established and the peer sends no banner (silent for 2 s, or closes
\* without data) the result has success = false.
C18_SshSuccessNeedsBanner ==
    (mode = "ssh" /\ conn_pc = "done") =>
        /\ conn_result.success =>
              /\ Len(conn_events) >= 2
              /\ conn_events[1] = "connected"
              /\ conn_events[2] = "line"
              /\ conn_wait < BannerTimeout
        /\ (/\ Len(conn_events) >= 2
            /\ conn_events[1] = "connected"
            /\ conn_events[2] \in {"eof", "TimeoutError"}) =>
              ~conn_result.success

\* C19: in every result success = true implies that the protocol's success
\* criterion was met (at least one reply for ICMP and raw UDP, a resolved
\* name for the DNS variant, a completed connect / handshake / banner for
\* TCP, a final status in [200, 400) for HTTP) and that error is null; a
\* result that carries an error never has success = true.
C19_SuccessMeansCriterionMet ==
    /\ (mode \in ProbeModes /\ probe_pc = "done") =>
          /\ result.success =>
                /\ result.error = None
                /\ result.packets_received >= 1
                /\ mode = "dns_probe" => attempt_log[1][3] = "resolved"
          /\ result.error # None => ~result.success
    /\ mode = "udp_ping" =>
          \A k \in 1 .. Len(ping_results) :
              /\ ping_results[k].success =>
                    ping_results[k].error = None /\ ping_results[k].rtt_ms # <<>>
              /\ ping_results[k].error # None => ~ping_results[k].success
    /\ (mode \in TcpModes /\ conn_pc = "done") =>
          /\ conn_result.success =>
                /\ conn_result.error = None
                /\ conn_events[1] = "connected"
                /\ mode = "ssh" => conn_events[2] = "line"
          /\ conn_result.error # None => ~conn_result.success
    /\ (mode = "http" /\ conn_pc = "done") =>
          /\ conn_result.success =>
                /\ conn_result.error = None
                /\ 200 <= conn_result.http_code /\ conn_result.http_code < 400
          /\ conn_result.error # None => ~conn_result.success

\* ---------------------------------------------------------------------
\* C20: every echo request the ICMP driver builds, whatever its
\* identifier, sequence number and 8-byte timestamp, verifies: the
\* one's-complement sum of the 16-bit words of the packet as transmitted
\* (network byte order, checksum field included) is 0xFFFF, so the
\* Internet checksum recomputed over it is zero; the driver's own
\* routine run over the packet returns zero as well, and the other
\* fields are the ones that were summed.
C20_EchoRequestChecksumVerifies ==
    (mode = "echo_request" /\ packet # <<>>) =>
        LET word(k) == packet[2 * k - 1] * 256 + packet[2 * k]
            total == word(1) + word(2) + word(3) + word(4)
                     + word(5) + word(6) + word(7) + word(8)
            fold1 == (total \div 65536) + (total % 65536)
            fold2 == (fold1 \div 65536) + (fold1 % 65536)
        IN  /\ Len(packet) = 16
            /\ packet[1] = 8 /\ packet[2] = 0
            /\ word(3) = icmp_id /\ <<word(4)>> = icmp_seq
            /\ SubSeq(packet, 9, 16) = data
            /\ fold2 = 65535
            /\ 65535 - fold2 = 0
            /\ CalculateChecksum(packet) = 0

\* A request whose word sum carries out of 16 bits more than once and
\* whose checksum bytes differ, so that the folding and the byte order
\* of the stored checksum both matter.
C20_Witness ==
    /\ mode = "echo_request"
    /\ packet # <<>>
    /\ packet[3] # packet[4]
    /\ icmp_id = 4660
    /\ icmp_seq = <<256>>
    /\ SumWords(packet, 0, 0) \div 65536 >= 2

\* ---------------------------------------------------------------------
\* C21: the jitter of a series is computed over the round-trip times of
\* the attempts that succeeded, in the order they were sent, the lost ones
\* being skipped: with n such times r1..rn it is the sum of |r(i+1) - r(i)|
\* divided by n - 1 when n >= 2, and 0 when n < 2. The statistics block
\* gives 0 for [10,10,10] and 10 for [10,20,10].
C21_JitterOfConsecutiveSamples ==
    /\ (mode \in {"icmp", "raw_udp"} /\ probe_pc = "done") =>
          LET ok == SelectSeq(attempt_log, LAMBDA e : "rtt" \in DOMAIN e[2])
              r == [k \in 1 .. Len(ok) |-> ok[k][2].rtt]
              n == Len(r)
              RECURSIVE Total(_)
              Total(i) == IF i >= n THEN 0
                          ELSE (IF r[i + 1] >= r[i] THEN r[i + 1] - r[i]
                                ELSE r[i] - r[i + 1]) + Total(i + 1)
          IN  /\ \A k \in 1 .. Len(ok) - 1 : ok[k][1] < ok[k + 1][1]
              /\ rtts = r
              /\ (n >= 2 /\ result.raw_results) =>
                    /\ result.jitter_ms.den = n - 1
                    /\ result.jitter_ms.num = Total(1)
              /\ (n < 2 \/ ~result.raw_results) => result.jitter_ms.num = 0
    /\ LET three == [NewResult EXCEPT !.packets_sent = 3,
                                      !.packets_received = 3]
       IN  /\ FracEq(SeriesStatistics(three, <<10, 10, 10>>).jitter_ms,
                     Frac(0, 1))
           /\ FracEq(SeriesStatistics(three, <<10, 20, 10>>).jitter_ms,
                     Frac(10, 1))

\* A finished series of three attempts whose second was lost and whose
\* two round-trip times differ, so that the jitter is their difference.
C21_Witness ==
    /\ mode \in {"icmp", "raw_udp"}
    /\ probe_pc = "done"
    /\ Len(attempt_log) = 3
    /\ IsNone(attempt_log[2][2])
    /\ Len(rtts) = 2
    /\ rtts[1] # rtts[2]
    /\ FracEq(result.jitter_ms, Frac(1, 1))

\* ---------------------------------------------------------------------
\* C22: for every non-empty list of n successful samples, each percentile
\* p the tool reports (of 0.5, 0.9, 0.95, 0.99) is the element at index
\* floor(n * p), counted from 0, of the samples in ascending order: that
\* index lies in 0 .. n-1, at most that many samples are smaller than the
\* reported value and more than that many are not larger. The HTTP trace
\* reports all four percentiles.
C22_PercentileIsNearestRank ==
    (mode \in StatModes /\ stats_pc = "done" /\ times # <<>>) =>
        LET n == Len(times)
            ps == DOMAIN stats.percentiles
        IN  /\ ps \subseteq {P50, P90, P95, P99}
            /\ mode = "http_stats" => ps = {P50, P90, P95, P99}
            /\ \A p \in ps :
                  \E i \in 0 .. (n - 1) :
                      /\ i * p.den <= n * p.num
                      /\ n * p.num < (i + 1) * p.den
                      /\ LET v == stats.percentiles[p]
                         IN  /\ \E k \in 1 .. n : times[k] = v
                             /\ Cardinality({k \in 1 .. n : times[k] < v}) <= i
                             /\ Cardinality({k \in 1 .. n : times[k] <= v}) > i

\* Ten samples that did not come in ascending order, of which the median
\* rank and the 90% rank hold different values.
C22_Witness ==
    /\ mode = "http_stats"
    /\ stats_pc = "done"
    /\ Len(times) = 10
    /\ times[1] = 2 /\ times[10] = 1
    /\ stats.percentiles[P50] = 1
    /\ stats.percentiles[P90] = 2

\* C23: for a list of samples of odd length the p50 percentile the HTTP
\* trace reports equals the median it reports for the same samples.
C23_P50IsMedianOfOddSample ==
    (mode = "http_stats" /\ stats_pc = "done" /\ Len(times) % 2 = 1) =>
        /\ P50 \in DOMAIN stats.percentiles
        /\ FracEq(Frac(stats.percentiles[P50], 1), stats.median_time)

\* Nine samples whose middle one, as they came in, is not their median.
C23_Witness ==
    /\ mode = "http_stats"
    /\ stats_pc = "done"
    /\ Len(times) = 9
    /\ times[5] = 1
    /\ stats.percentiles[P50] = 2
    /\ FracEq(stats.median_time, Frac(2, 1))

\* ---------------------------------------------------------------------
\* C24: every record a protocol driver hands over for the collector,
\* whichever the family, has exactly the twelve fields of the output
\* contract: none is missing and none is added.
C24_RecordHasContractFields ==
    \A u \in uploads :
        u.result_dict =
            {"test_type", "protocol_detail", "target_host", "target_ip",
             "latency_ms", "jitter_ms", "packet_loss_percent", "packets_sent",
             "packets_received", "success", "error", "raw_results"}

\* ---------------------------------------------------------------------
\* C25: a run of all enabled probe families always terminates and returns
\* a list of results for each of http, tcp, udp and icmp, whatever the
\* single targets and families end with. The run awaits the four family
\* loops, and each of these awaits one probe per target, so the run
\* terminates only if every probe does: the run of the families ends
\* with its four lists, and every probe that was begun ends.
C25_RunTerminatesWithFourLists ==
    /\ [](mode = "client" /\ ~IsNone(all_results) =>
            /\ DOMAIN all_results = {"http", "tcp", "udp", "icmp"}
            /\ \A f \in Families :
                  /\ DOMAIN all_results[f] = 1 .. Len(all_results[f])
                  /\ Len(all_results[f]) <= targets[f])
    /\ <>(mode = "client" => ~IsNone(all_results))
    /\ <>(mode \in ProbeModes => probe_pc = "done")
    /\ <>(mode \in ConnModes => conn_pc \in {"done", "raised"})

\* ---------------------------------------------------------------------
\* C26: a sequential series sends its attempts strictly in the order of
\* their sequence numbers: while attempt k is under way the attempts
\* 0 .. k-1, and only they, have resolved, and the interval was slept
\* after each of them, in that order; a wait only follows an attempt that
\* has resolved and is not the last; a series that ran through all its N
\* attempts without being cancelled slept exactly N-1 times.
C26_SequentialSeriesIntervals ==
    /\ mode \in {"icmp", "raw_udp"} =>
          /\ waits = [k \in 1 .. Len(waits) |-> k - 1]
          /\ \A k \in 1 .. Len(attempt_log) : attempt_log[k][1] = k - 1
          /\ Len(waits) <= Len(attempt_log)
          /\ \A k \in 1 .. Len(waits) : waits[k] < packet_count - 1
          /\ probe_pc \in {"send", "recv"} =>
                /\ Len(attempt_log) = probe_seq
                /\ Len(waits) = probe_seq
          /\ (probe_pc \in {"stats", "done"} /\ probe_sock = "closed"
              /\ packet_count >= 1) =>
                /\ Len(attempt_log) = packet_count
                /\ Len(waits) = packet_count - 1
    /\ mode = "udp_ping" =>
          /\ waits = [k \in 1 .. Len(waits) |-> k - 1]
          /\ Len(waits) <= Len(ping_results)
          /\ \A k \in 1 .. Len(waits) : waits[k] < ping_count - 1
          /\ ping_pc \in {"create_socket", "send", "recv"} =>
                /\ Len(ping_results) = ping_seq
                /\ Len(waits) = ping_seq
          /\ (ping_pc = "done" /\ running /\ ping_count >= 1) =>
                /\ Len(ping_results) = ping_count
                /\ Len(waits) = ping_count - 1

\* A series of three pings that ran to its end: two waits, after the
\* first and after the second attempt.
C26_Witness ==
    /\ mode = "udp_ping"
    /\ ping_pc = "done"
    /\ running
    /\ ping_count = 3
    /\ Len(ping_results) = 3
    /\ waits = <<0, 1>>

\* ---------------------------------------------------------------------
\* C27: for every call of run_test on one HttpTest instance, the first
\* and each later one, the timestamps its time_namelookup, time_connect
\* and time_transfer are derived from are those recorded during that
\* call's own request: a call that got its response derives
\* time_transfer from its own request_start / request_end, and, when its
\* request resolved a name and made a connection, time_namelookup and
\* time_connect from its own timestamps of these phases; no value is
\* derived from another call's timestamps, and none is left underived
\* because the call's record is empty.
C27_TimingsAreTheCallsOwn ==
    mode = "http_instance" =>
        \A k \in 1 .. Len(http_results) :
            (~IsRaised(http_results[k]) /\ http_results[k].outcome = "response") =>
                LET r == http_results[k]
                IN  /\ r.time_transfer = k
                    /\ DnsPhases \subseteq r.fired => r.time_namelookup = k
                    /\ ConnectPhases \subseteq r.fired => r.time_connect = k
                    /\ r.time_namelookup \in {0, k}
                    /\ r.time_connect \in {0, k}

\* C28: in a raw UDP series every reply counted as received for an attempt
\* answers that attempt's own datagram; a reply to an earlier attempt that
\* arrives after that attempt ended is never counted for a later attempt
\* nor timed against the later attempt's send.
C28_ReplyBelongsToItsAttempt ==
    mode = "raw_udp" =>
        \A k \in 1 .. Len(attempt_log) :
            attempt_log[k][3] = "from_target" =>
                attempt_log[k][4] = <<attempt_log[k][1]>>

\* C29: with the circuit breaker enabled, no request is sent while the
\* circuit is OPEN and less than the open timeout has passed since the last
\* failure, whether it is the first attempt of a call or a retry.
C29_NoRequestWhileOpen ==
    (mode = "http_client" /\ cb_enabled /\ last_request.kind = "sent") =>
        ~(/\ last_request.state = CircuitState.OPEN
          /\ last_request.elapsed < OpenTimeout)

\* C30: for every client and every interval of one window length, at most
\* requests_per_minute of the requests of that client that arrive in the
\* interval are admitted, whatever the arrival times and the interleaving
\* of the handler threads.
C30_SlidingWindowLimit ==
    mode = "rate_limit" =>
        \A c \in ClientIds : \A from \in Epoch .. (Epoch + MaxTicks) :
            Cardinality({k \in 1 .. Len(admitted[c]) :
                            /\ from <= admitted[c][k]
                            /\ admitted[c][k] < from + WindowTicks})
                <= RequestsPerMinute

====
